---- MODULE Spec2Model ----
(***************************************************************************)
(* net_configurator: Developer.run() (developer.py) as a state machine.    *)
(* One run reads the desired rules from a source, then reads the target,   *)
(* diffs with the discrepancy finders and applies deletions and additions  *)
(* in dependency order; both phases run inside a tenacity Retrying loop.   *)
(* Collaborator calls (factory create, open, reads, mutations,             *)
(* apply_changes, close) are the environment: each either returns or       *)
(* raises an error of one of three kinds.                                  *)
(***************************************************************************)
EXTENDS Integers, Sequences, FiniteSets, TLC

VARIABLES
    pc,             \* position of run() in the code
    phase,          \* "none" | "source" | "target": which retry loop is running
    retry,          \* the Retrying object's policy: [count, timeout, delay]
    attempt_number, \* tenacity RetryCallState.attempt_number
    clock,          \* time since the Retrying loop began (RetryCallState.start_time)
    outcome,        \* RetryCallState.outcome: the error the attempt ended with, or NoError
    pending,        \* error raised by the body of the with statement, not yet through __exit__
    inst,           \* identity of the object held by self.__source / self.__target
    inst_users,     \* {<<instance, attempt>>}: which attempt of the phase called which instance
    open_sessions,  \* instances of the current phase whose session is open
    close_raised,   \* instances of the current phase whose close() raised
    n_create,       \* create() calls made in the current phase
    n_sleep,        \* retry delays waited in the current phase
    slept,          \* total time waited in retry delays in the current phase
    all_recoverable,\* every attempt of the current phase so far ended with a RecoverableError
    desired,        \* the desired rules read from the source
    tgt,            \* the target's own state: [rules, filters, owners]
    existing,       \* what the current attempt read from the target
    todo,           \* elements the running loop of __process_elements has not visited yet
    calls,          \* collaborator calls issued in the current attempt, in order
    raised_at,      \* index in calls of the call of the with body that raised, or 0
    n_apply,        \* apply_changes calls issued in the run
    result,         \* how run() ended: "none" | "ok" | "SourceError" | "TargetError" | "raw"
    cause,          \* the error run()'s exception was raised from (or is, when raw)
    fd_desired,     \* discrepancy finder under test: desired_elements
    fd_existing,    \* discrepancy finder under test: existing_elements
    fd_to_add,      \* result of get_elements_to_add()
    fd_to_delete,   \* result of get_elements_to_delete()
    fd_pc,          \* which of the finder's two methods have been called
    id_source_record, \* a raw rule record as the source reader returns it
    id_target_record, \* a raw rule record as the target reader returns it
    id_source_rule, \* Rule(**id_source_record), once built
    id_target_rule, \* Rule(**id_target_record), once built
    id_hashed,      \* the strings given to Namer.generate_identifier so far
    ex_pc,          \* Executor: "idle", or "try_disconnect" inside disconnect()
    ex_connection,  \* Executor.__connection: "none" or "conn"
    ex_alive,       \* what connection.is_alive() returns
    ex_attempt,     \* attempt number of the running _try_disconnect
    ex_sent,        \* commands given to send_command during the current call
    ex_last,        \* how the last public call of the Executor ended
    ex_with,        \* with statement on the executor: "out" (none yet) | "in" | "left" | "not_entered"
    ex_calls,       \* calls made by __enter__/__exit__ for the latest with statement
    jr_file,        \* JSONFileReader._file: "none" or "open"
    jr_content,     \* what json.load finds in the file
    jr_cache,       \* the cached value of _file_decoded, or Unset
    jr_opened,      \* open() has returned normally with a file at least once
    jr_with,        \* "out" | "in": inside a with statement on the reader
    jr_calls,       \* calls made by __enter__/__exit__ for the latest with statement
    jr_last,        \* how the last call on the reader ended
    jr_consumed,    \* json.load has read the open file object to its end
    rf_args,        \* keyword arguments given to RuleFilter(...)
    rf_made,        \* what RuleFilter(**rf_args) gave, once called
    rp_args,        \* keyword arguments given to RulePeer(...)
    rp_made,        \* what RulePeer(**rp_args) gave, once called
    nm_pc,          \* generate_identifier: "idle" | "hashing" | "returned"
    nm_string,      \* the string given to generate_identifier, as code points
    nm_hash,        \* the hasher's chaining value, five words
    nm_schedule,    \* the words of the message schedule computed so far
    nm_work,        \* the working variables a, b, c, d, e of the block being hashed
    nm_round,       \* rounds of the block done
    nm_identifier,  \* what the latest call returned
    nm_issued,      \* <<string, identifier>> of every call that has returned
    runs_done       \* runs of run() on this Developer that returned before the current one

dev_vars == <<pc, phase, retry, attempt_number, clock, outcome, pending, inst,
              inst_users, open_sessions, close_raised, n_create, n_sleep, slept,
              all_recoverable, desired, tgt, existing, todo, calls, raised_at, n_apply, result, cause>>
fd_vars == <<fd_desired, fd_existing, fd_to_add, fd_to_delete, fd_pc>>
id_vars == <<id_source_record, id_target_record, id_source_rule, id_target_rule, id_hashed>>
ex_vars == <<ex_pc, ex_connection, ex_alive, ex_attempt, ex_sent, ex_last, ex_with, ex_calls>>
jr_vars == <<jr_file, jr_content, jr_cache, jr_opened, jr_with, jr_calls, jr_last, jr_consumed>>
en_vars == <<rf_args, rf_made, rp_args, rp_made>>
nm_vars == <<nm_pc, nm_string, nm_hash, nm_schedule, nm_work, nm_round, nm_identifier, nm_issued>>
rr_vars == <<runs_done>>
vars == <<dev_vars, fd_vars, id_vars, ex_vars, jr_vars, en_vars, nm_vars, rr_vars>>

\* What the actions of one component leave alone: the other components.
dev_frame == <<fd_vars, id_vars, ex_vars, jr_vars, en_vars, nm_vars, rr_vars>>
fd_frame == <<dev_vars, id_vars, ex_vars, jr_vars, en_vars, nm_vars, rr_vars>>
id_frame == <<dev_vars, fd_vars, ex_vars, jr_vars, en_vars, nm_vars, rr_vars>>
ex_frame == <<dev_vars, fd_vars, id_vars, jr_vars, en_vars, nm_vars, rr_vars>>
jr_frame == <<dev_vars, fd_vars, id_vars, ex_vars, en_vars, nm_vars, rr_vars>>
en_frame == <<dev_vars, fd_vars, id_vars, ex_vars, jr_vars, nm_vars, rr_vars>>
nm_frame == <<dev_vars, fd_vars, id_vars, ex_vars, jr_vars, en_vars, rr_vars>>
rr_frame == <<fd_vars, id_vars, ex_vars, jr_vars, en_vars, nm_vars>>

(***************************************************************************)
(* Bounds of the model.                                                    *)
(***************************************************************************)
MaxCount == 2
MaxTimeout == 2
MaxDelay == 1
MaxAttemptTime == 1
\* The highest port number and the highest address of the scaled-down ranges.
MaxPort == 3
MaxAddress == 3

(***************************************************************************)
(* Entities.  A rule references one packet filter and a set of owners.     *)
(***************************************************************************)
Owner(i) == [identifier |-> i]
PacketFilter(i) == [identifier |-> i]
Rule(i, f, os) == [identifier |-> i, packet_filter |-> f, owners |-> os]

O1 == Owner("O1")
O2 == Owner("O2")
F1 == PacketFilter("F1")
F2 == PacketFilter("F2")
RuleA == Rule("RuleA", F1, {O1})
RuleB == Rule("RuleB", F2, {O2})

Owners == {O1, O2}
Filters == {F1, F2}
Rules == {RuleA, RuleB}

(***************************************************************************)
(* Errors.  FatalError and RecoverableError are the two classified bases;  *)
(* "Other" is an exception derived from neither (ExecutorBaseError and its *)
(* subclasses derive from Exception).                                      *)
(***************************************************************************)
ErrorKinds == {"Recoverable", "Fatal", "Other"}
NoError == [kind |-> "none", op |-> "none", at |-> 0]
Error(k, o, n) == [kind |-> k, op |-> o, at |-> n]
Classified(e) == e.kind \in {"Recoverable", "Fatal"}

\* What RulesSource.read_all_rules raises in attempt n for a malformed record:
\* DeserializationError, a FatalError.
MalformedRecordError(n) == Error("Fatal", "read_all_rules", n)

(***************************************************************************)
(* Discrepancy finder: set differences by value; deletions by identifier.  *)
(***************************************************************************)
GetElementsToDeleteAllExisting(D, E) == {e.identifier : e \in E}
GetElementsToDeleteByValue(D, E) == {e.identifier : e \in D \ E}
GetElementsToDelete(D, E) == {e.identifier : e \in E \ D}

GetElementsToAddByIdentifier(D, E) == {d \in D : d.identifier \notin {e.identifier : e \in E}}
GetElementsToAddSwapped(D, E) == E \ D
GetElementsToAdd(D, E) == D \ E

(***************************************************************************)
(* Optimizer: inert on the rules; filters and owners are projections.      *)
(***************************************************************************)
GetRulesMerged(rules) == IF rules = {} THEN {} ELSE {CHOOSE r \in rules : TRUE}
GetRules(rules) == rules
GetFiltersOfNoRule(rules) == {}
GetFilters(rules) == {r.packet_filter : r \in rules}
GetOwners(rules) == UNION {r.owners : r \in rules}
Desired == [rules |-> GetRules(desired), filters |-> GetFilters(desired),
            owners |-> GetOwners(desired)]

EmptyState == [rules |-> {}, filters |-> {}, owners |-> {}]

\* A target as a completed run leaves it: it holds exactly the filters and
\* owners its rules reference.  States with unreferenced filters or owners
\* arise afterwards, from attempts that fail part-way.
TargetStates == {t \in [rules : SUBSET Rules, filters : SUBSET Filters, owners : SUBSET Owners] :
                    /\ GetFilters(t.rules) = t.filters
                    /\ GetOwners(t.rules) = t.owners}

(***************************************************************************)
(* Ordered apply protocol: the three nested __process_elements context     *)
(* managers delete on entry (rules, filters, owners) and add on exit in    *)
(* reverse (owners, filters, rules); apply_changes follows the with block. *)
(***************************************************************************)
StepOrderAddsNotMirrored == <<"delete_rule", "delete_filter", "delete_owner",
                              "add_rule", "add_filter", "add_owner", "apply_changes">>
StepOrderApplyFirst == <<"apply_changes", "delete_rule", "delete_filter", "delete_owner",
                         "add_owner", "add_filter", "add_rule">>
StepOrderDeletesReversed == <<"delete_owner", "delete_filter", "delete_rule",
                              "add_owner", "add_filter", "add_rule", "apply_changes">>
StepOrder == <<"delete_rule", "delete_filter", "delete_owner",
               "add_owner", "add_filter", "add_rule", "apply_changes">>

DeleteSteps == {"delete_rule", "delete_filter", "delete_owner"}
AddSteps == {"add_owner", "add_filter", "add_rule"}
ReadCalls == {"read_all_rules", "read_all_filters", "read_all_owners"}

StepIndex(s) == CHOOSE i \in 1..Len(StepOrder) : StepOrder[i] = s

\* What the loop of one step iterates over, from the finders built in this attempt.
StepTodo(s, D, E) ==
    CASE s = "delete_rule"   -> GetElementsToDelete(D.rules, E.rules)
      [] s = "delete_filter" -> GetElementsToDelete(D.filters, E.filters)
      [] s = "delete_owner"  -> GetElementsToDelete(D.owners, E.owners)
      [] s = "add_owner"     -> GetElementsToAdd(D.owners, E.owners)
      [] s = "add_filter"    -> GetElementsToAdd(D.filters, E.filters)
      [] s = "add_rule"      -> GetElementsToAdd(D.rules, E.rules)
      [] OTHER               -> {}

\* The next position at or after step i: a loop over an empty set issues no call.
RECURSIVE NextStep(_, _, _)
NextStep(i, D, E) ==
    IF i > Len(StepOrder) THEN "close"
    ELSE IF StepOrder[i] # "apply_changes" /\ StepTodo(StepOrder[i], D, E) = {}
         THEN NextStep(i + 1, D, E)
         ELSE StepOrder[i]

\* Where control goes when a call of the with body raises: a generator-based
\* context manager re-raises at its yield, so the exception unwinds to the
\* session's __exit__ without running any remaining loop.
AfterRaiseRunsRemainingSteps(s, D, E) ==
    IF s \in DeleteSteps \cup AddSteps THEN NextStep(StepIndex(s) + 1, D, E) ELSE "close"
AfterRaiseRestartsSteps(s, D, E) == IF s \in AddSteps THEN NextStep(1, D, E) ELSE "close"
AfterRaise(s, D, E) == "close"

\* The effect of a completed mutation on the target's own state.
Effect(s, t, x) ==
    CASE s = "delete_rule"   -> [t EXCEPT !.rules = {r \in @ : r.identifier # x}]
      [] s = "delete_filter" -> [t EXCEPT !.filters = {f \in @ : f.identifier # x}]
      [] s = "delete_owner"  -> [t EXCEPT !.owners = {o \in @ : o.identifier # x}]
      [] s = "add_owner"     -> [t EXCEPT !.owners = @ \cup {x}]
      [] s = "add_filter"    -> [t EXCEPT !.filters = @ \cup {x}]
      [] s = "add_rule"      -> [t EXCEPT !.rules = @ \cup {x}]
      [] OTHER               -> t

(***************************************************************************)
(* Retry policy (tenacity).                                                *)
(***************************************************************************)
\* retry=retry_if_exception_type(RecoverableError)
RetryPredicateAnyClassified(e) == Classified(e)
RetryPredicate(e) == e.kind = "Recoverable"

\* stop=(stop_after_attempt(count) | stop_after_delay(timeout))
StopAfterDelayStrict(n, t) == n >= retry.count \/ t > retry.timeout
StopOffByOne(n, t) == n > retry.count \/ t >= retry.timeout
Stop(n, t) == n >= retry.count \/ t >= retry.timeout

\* wait=wait_fixed(delay)
WaitTwice == retry.delay + retry.delay
Wait == retry.delay

NoPolicy == [count |-> 0, timeout |-> 0, delay |-> 0]

TerminalErrorSwapped(p) == IF p = "source" THEN "TargetError" ELSE "SourceError"
TerminalError(p) == IF p = "source" THEN "SourceError" ELSE "TargetError"

(***************************************************************************)
(* Building blocks of the actions.                                         *)
(***************************************************************************)
\* A collaborator call issued by the current attempt on the current instance.
Call(name) ==
    /\ calls' = Append(calls, name)
    /\ inst_users' = inst_users \cup {<<inst, attempt_number>>}

Goto(p, E) ==
    /\ pc' = p
    /\ todo' = IF p \in DeleteSteps \cup AddSteps THEN StepTodo(p, Desired, E) ELSE {}

\* A call of the with body raises an error of kind k.
Raise(k, name, E) ==
    /\ pending' = Error(k, name, attempt_number)
    /\ raised_at' = Len(calls) + 1
    /\ Goto(AfterRaise(name, Desired, E), E)

\* The exception leaves the Retrying loop: except (RecoverableError, FatalError)
\* turns it into the phase's terminal error; anything else passes through.
PropagateRetriesCreate(e) ==
    IF e.op = "create" /\ e.kind = "Recoverable"
    THEN pc' = "before" /\ UNCHANGED <<result, cause>>
    ELSE /\ result' = IF Classified(e) THEN TerminalError(phase) ELSE "raw"
         /\ cause' = e
         /\ pc' = "done"
Propagate(e) ==
    /\ result' = IF Classified(e) THEN TerminalError(phase) ELSE "raw"
    /\ cause' = e
    /\ pc' = "done"

(***************************************************************************)
(* Initial state: a Developer was constructed; the target holds any state. *)
(***************************************************************************)
FinderIdle ==
    /\ fd_desired = {}
    /\ fd_existing = {}
    /\ fd_to_add = {}
    /\ fd_to_delete = {}
    /\ fd_pc = [add |-> FALSE, delete |-> FALSE]

\* No rule record is being turned into a Rule.
NotBuilt == [built |-> FALSE]
IdentityIdle ==
    /\ id_source_record = NotBuilt
    /\ id_target_record = NotBuilt
    /\ id_source_rule = NotBuilt
    /\ id_target_rule = NotBuilt
    /\ id_hashed = <<>>

\* The last public call: whether is_connected() held when it began, what it
\* raised, what it returned, whether the connection was alive when it ended.
\* cause is what the library call underneath raised, where the method
\* translates it.
NoCall == [op |-> "none", live |-> FALSE, raised |-> "none", value |-> "none", alive |-> FALSE,
           cause |-> "none"]
Ended(op, live, raised, value, alive) ==
    [op |-> op, live |-> live, raised |-> raised, value |-> value, alive |-> alive,
     cause |-> "none"]

ExecutorIdle ==
    /\ ex_pc = "idle"
    /\ ex_connection = "none"
    /\ ex_alive = FALSE
    /\ ex_attempt = 0
    /\ ex_sent = <<>>
    /\ ex_last = NoCall
    /\ ex_with = "out"
    /\ ex_calls = <<>>

\* JSONFileReader.__init__: no file, nothing decoded, and no call made yet.
Unset == [set |-> FALSE]
NoReaderCall == [op |-> "none", raised |-> "none", value |-> "none"]
ReaderIdle ==
    /\ jr_file = "none"
    /\ jr_content = "none"
    /\ jr_cache = Unset
    /\ jr_opened = FALSE
    /\ jr_with = "out"
    /\ jr_calls = <<>>
    /\ jr_last = NoReaderCall
    /\ jr_consumed = FALSE

\* No RuleFilter and no RulePeer is being constructed.
NoArgs == [given |-> FALSE]
EntitiesIdle ==
    /\ rf_args = NoArgs
    /\ rf_made = NotBuilt
    /\ rp_args = NoArgs
    /\ rp_made = NotBuilt

\* generate_identifier has not been called.
NotReturned == [prefix |-> "", digest |-> <<>>]
NamerIdle ==
    /\ nm_pc = "idle"
    /\ nm_string = <<>>
    /\ nm_hash = <<>>
    /\ nm_schedule = <<>>
    /\ nm_work = <<>>
    /\ nm_round = 0
    /\ nm_identifier = NotReturned
    /\ nm_issued = {}

\* run() has not returned on this Developer before.
NoEarlierRun == runs_done = 0

Init ==
    /\ pc = "init"
    /\ phase = "none"
    /\ retry = NoPolicy
    /\ attempt_number = 0
    /\ clock = 0
    /\ outcome = NoError
    /\ pending = NoError
    /\ inst = <<"none", 0>>
    /\ inst_users = {}
    /\ open_sessions = {}
    /\ close_raised = {}
    /\ n_create = 0
    /\ n_sleep = 0
    /\ slept = 0
    /\ all_recoverable = TRUE
    /\ desired = {}
    /\ tgt \in TargetStates
    /\ existing = EmptyState
    /\ todo = {}
    /\ calls = <<>>
    /\ raised_at = 0
    /\ n_apply = 0
    /\ result = "none"
    /\ cause = NoError
    /\ FinderIdle
    /\ IdentityIdle
    /\ ExecutorIdle
    /\ ReaderIdle
    /\ EntitiesIdle
    /\ NamerIdle
    /\ NoEarlierRun

\* A Retrying loop begins: Retrying(stop=..., wait=..., retry=...) reads the
\* phase's public retry attributes, which the caller may have set to any value.
BeginPhase(p) ==
    /\ phase' = p
    /\ retry' \in [count : 0..MaxCount, timeout : 0..MaxTimeout, delay : 1..MaxDelay]
    /\ attempt_number' = 1
    /\ clock' = 0
    /\ outcome' = NoError
    /\ pending' = NoError
    /\ n_create' = 0
    /\ inst_users' = {}
    /\ open_sessions' = {}
    /\ close_raised' = {}
    /\ n_sleep' = 0
    /\ slept' = 0
    /\ all_recoverable' = TRUE
    /\ calls' = <<>>
    /\ raised_at' = 0
    /\ existing' = EmptyState
    /\ todo' = {}
    /\ pc' = "before"

(***************************************************************************)
(* run() and the two retry loops.                                          *)
(***************************************************************************)
\* run(): enters __read_source_rules_with_retries.
Run ==
    /\ pc = "init"
    /\ BeginPhase("source")
    /\ UNCHANGED <<inst, desired, tgt, n_apply, result, cause, dev_frame>>

\* The object a factory's create() returns: a new one on every call.
CreateReusesInstance == IF inst[1] = phase THEN inst ELSE <<phase, 1>>
CreateFromTargetFactory == <<"target", n_create + 1>>
Create == <<phase, n_create + 1>>

\* before=recreate_before_retry: runs before every attempt, the first included,
\* outside the attempt's with statement.
RecreateBeforeRetry ==
    /\ pc = "before"
    /\ n_create' = n_create + 1
    /\ \/ /\ inst' = Create
          /\ pc' = "open"
          /\ calls' = <<>>
          /\ raised_at' = 0
          /\ pending' = NoError
          /\ existing' = EmptyState
          /\ todo' = {}
          /\ UNCHANGED <<result, cause, all_recoverable>>
       \/ /\ \E k \in ErrorKinds : Propagate(Error(k, "create", attempt_number))
          /\ all_recoverable' = FALSE
          /\ UNCHANGED <<inst, calls, raised_at, pending, existing, todo>>
    /\ UNCHANGED <<phase, retry, attempt_number, clock, outcome, inst_users, open_sessions, close_raised,
                   n_sleep, slept, desired, tgt, n_apply, dev_frame>>

\* with attempt, self.__source / self.__target: __enter__ opens the session.  A
\* failed open leaves no session and __exit__ is not called.

Open ==
    /\ pc = "open"
    /\ Call("open")
    /\ \/ /\ open_sessions' = open_sessions \cup {inst}
          /\ pc' = IF phase = "source" THEN "src_read_all_rules" ELSE "read_all_rules"
          /\ UNCHANGED outcome
       \/ /\ \E k \in ErrorKinds : outcome' = Error(k, "open", attempt_number)
          /\ pc' = "iter"
          /\ UNCHANGED open_sessions
    /\ UNCHANGED <<phase, retry, attempt_number, clock, pending, inst, close_raised, n_create,
                   n_sleep, slept, all_recoverable, desired, tgt, existing, todo, raised_at,
                   n_apply, result, cause, dev_frame>>

\* __read_source_rules: the source returns some set of rules, or raises.
ReadSourceRules ==
    /\ pc = "src_read_all_rules"
    /\ Call("read_all_rules")
    /\ \/ /\ desired' \in SUBSET Rules
          /\ pc' = "close"
          /\ UNCHANGED <<pending, raised_at>>
       \/ /\ \E k \in ErrorKinds : pending' = Error(k, "read_all_rules", attempt_number)
          /\ raised_at' = Len(calls) + 1
          /\ pc' = "close"
          /\ UNCHANGED desired
    /\ UNCHANGED <<phase, retry, attempt_number, clock, outcome, inst,
                   open_sessions, close_raised, n_create, n_sleep, slept, all_recoverable, tgt, existing,
                   todo, n_apply, result, cause, dev_frame>>

\* self.__target.read_all_rules() / read_all_filters() / read_all_owners():
\* what the target holds when it is asked.
ReadAllInFirstAttemptOnly(field) == IF attempt_number = 1 THEN tgt[field] ELSE {}
ReadAll(field) == tgt[field]

\* __apply_source_to_target: the three reads of the existing state.
ReadTarget(name, field, next) ==
    /\ pc = name
    /\ Call(name)
    /\ \/ /\ existing' = [existing EXCEPT ![field] = ReadAll(field)]
          /\ IF next = "steps" THEN Goto(NextStep(1, Desired, existing'), existing')
                               ELSE pc' = next /\ todo' = {}
          /\ UNCHANGED <<pending, raised_at>>
       \/ /\ \E k \in ErrorKinds : Raise(k, name, existing)
          /\ UNCHANGED existing
    /\ UNCHANGED <<phase, retry, attempt_number, clock, outcome, inst,
                   open_sessions, close_raised, n_create, n_sleep, slept, all_recoverable, desired, tgt,
                   n_apply, result, cause, dev_frame>>

ReadAllRules == ReadTarget("read_all_rules", "rules", "read_all_filters")
ReadAllFilters == ReadTarget("read_all_filters", "filters", "read_all_owners")
ReadAllOwners == ReadTarget("read_all_owners", "owners", "steps")

\* __process_elements: one iteration of a delete or add loop.
ProcessElement(s) ==
    /\ pc = s
    /\ \E x \in todo :
        /\ Call(s)
        /\ \/ /\ tgt' = Effect(s, tgt, x)
              /\ IF todo \ {x} # {}
                 THEN pc' = pc /\ todo' = todo \ {x}
                 ELSE Goto(NextStep(StepIndex(s) + 1, Desired, existing), existing)
              /\ UNCHANGED <<pending, raised_at>>
           \/ /\ \E k \in ErrorKinds : Raise(k, s, existing)
              /\ UNCHANGED tgt
    /\ UNCHANGED <<phase, retry, attempt_number, clock, outcome, inst,
                   open_sessions, close_raised, n_create, n_sleep, slept, all_recoverable, desired,
                   existing, n_apply, result, cause, dev_frame>>

DeleteRule == ProcessElement("delete_rule")
DeleteFilter == ProcessElement("delete_filter")
DeleteOwner == ProcessElement("delete_owner")
AddOwner == ProcessElement("add_owner")
AddFilter == ProcessElement("add_filter")
AddRule == ProcessElement("add_rule")

\* self.__target.apply_changes()
ApplyChanges ==
    /\ pc = "apply_changes"
    /\ Call("apply_changes")
    /\ n_apply' = n_apply + 1
    /\ \/ /\ Goto(NextStep(StepIndex("apply_changes") + 1, Desired, existing), existing)
          /\ UNCHANGED <<pending, raised_at>>
       \/ \E k \in ErrorKinds : Raise(k, "apply_changes", existing)
    /\ UNCHANGED <<phase, retry, attempt_number, clock, outcome, inst,
                   open_sessions, close_raised, n_create, n_sleep, slept, all_recoverable, desired, tgt,
                   existing, result, cause, dev_frame>>

\* The session's __exit__ calls close() whether or not the body raised.  An
\* error raised by close() replaces the body's; the handle stays set then.
CloseSkippedOnError == pending = NoError
CloseIsCalled == TRUE
\* What the with statement ends with when close() raised an error of kind k.
CloseOutcomeKeepsBodys(k) == pending
CloseOutcome(k) == Error(k, "close", attempt_number)

Close ==
    /\ pc = "close"
    /\ IF CloseIsCalled
       THEN /\ Call("close")
            /\ \/ /\ open_sessions' = open_sessions \ {inst}
                  /\ outcome' = pending
                  /\ UNCHANGED close_raised
               \/ /\ \E k \in ErrorKinds : outcome' = CloseOutcome(k)
                  /\ close_raised' = close_raised \cup {inst}
                  /\ UNCHANGED open_sessions
       ELSE /\ outcome' = pending
            /\ UNCHANGED <<calls, inst_users, open_sessions, close_raised>>
    /\ pc' = "iter"
    /\ UNCHANGED <<phase, retry, attempt_number, clock, pending, inst, n_create,
                   n_sleep, slept, all_recoverable, desired, tgt, existing, todo, raised_at,
                   n_apply, result, cause, dev_frame>>

\* The source attempt succeeded: return the rules; run() goes on to the target
\* phase with the optimizer's output.
SourceReturn ==
    /\ pc = "iter"
    /\ phase = "source"
    /\ outcome = NoError
    /\ BeginPhase("target")
    /\ UNCHANGED <<inst, desired, tgt, n_apply, result, cause, dev_frame>>

\* The target attempt succeeded: the loop ends and run() returns.
TargetDone ==
    /\ pc = "iter"
    /\ phase = "target"
    /\ outcome = NoError
    /\ result' = "ok"
    /\ all_recoverable' = FALSE
    /\ pc' = "done"
    /\ UNCHANGED <<phase, retry, attempt_number, clock, outcome, pending, inst,
                   inst_users, open_sessions, close_raised, n_create, n_sleep, slept,
                   desired, tgt, existing, todo, calls, raised_at, n_apply, cause, dev_frame>>

\* Retrying.iter on a failed attempt the retry predicate rejects: re-raise.
IterReraise ==
    /\ pc = "iter"
    /\ outcome # NoError
    /\ ~RetryPredicate(outcome)
    /\ Propagate(outcome)
    /\ all_recoverable' = FALSE
    /\ UNCHANGED <<phase, retry, attempt_number, clock, outcome, pending, inst,
                   inst_users, open_sessions, close_raised, n_create, n_sleep, slept,
                   desired, tgt, existing, todo, calls, raised_at, n_apply, dev_frame>>

\* ... on a retryable failure with the stop condition met at the attempt's
\* outcome timestamp (the attempt took d): reraise=True raises the last
\* attempt's own exception.
IterStop ==
    /\ pc = "iter"
    /\ outcome # NoError
    /\ RetryPredicate(outcome)
    /\ \E d \in 0..MaxAttemptTime :
        /\ Stop(attempt_number, clock + d)
        /\ clock' = clock + d
    /\ Propagate(outcome)
    /\ UNCHANGED <<phase, retry, attempt_number, outcome, pending, inst,
                   inst_users, open_sessions, close_raised, n_create, n_sleep, slept, all_recoverable,
                   desired, tgt, existing, todo, calls, raised_at, n_apply, dev_frame>>

\* ... otherwise: sleep the fixed delay and prepare the next attempt.
IterSleep ==
    /\ pc = "iter"
    /\ outcome # NoError
    /\ RetryPredicate(outcome)
    /\ \E d \in 0..MaxAttemptTime :
        /\ ~Stop(attempt_number, clock + d)
        /\ clock' = clock + d + Wait
    /\ slept' = slept + Wait
    /\ n_sleep' = n_sleep + 1
    /\ attempt_number' = attempt_number + 1
    /\ outcome' = NoError
    /\ pc' = "before"
    /\ UNCHANGED <<phase, retry, pending, inst, inst_users, open_sessions, close_raised,
                   n_create, all_recoverable, desired, tgt, existing, todo, calls, raised_at,
                   n_apply, result, cause, dev_frame>>

Next ==
    \/ Run
    \/ RecreateBeforeRetry
    \/ Open
    \/ ReadSourceRules
    \/ ReadAllRules
    \/ ReadAllFilters
    \/ ReadAllOwners
    \/ DeleteRule
    \/ DeleteFilter
    \/ DeleteOwner
    \/ AddOwner
    \/ AddFilter
    \/ AddRule
    \/ ApplyChanges
    \/ Close
    \/ SourceReturn
    \/ TargetDone
    \/ IterReraise
    \/ IterStop
    \/ IterSleep

Spec == Init /\ [][Next]_vars

(***************************************************************************)
(* run() called again on the same Developer after it returned, with the    *)
(* source and the target left as they were: the source's read_all_rules    *)
(* returns the same rules, the target holds what the first run left.       *)
(***************************************************************************)
\* run() is called a second time.
RunAgain ==
    /\ pc = "done"
    /\ result = "ok"
    /\ runs_done = 0
    /\ runs_done' = 1
    /\ BeginPhase("source")
    /\ n_apply' = 0
    /\ result' = "none"
    /\ UNCHANGED <<inst, desired, tgt, cause, rr_frame>>

\* A step of run(); in the second run the source returns what it returned.
RunStep == Next /\ (runs_done > 0 => desired' = desired)

InitRerun == Init

NextRerun ==
    \/ RunStep
    \/ RunAgain

SpecRerun == InitRerun /\ [][NextRerun]_vars

(***************************************************************************)
(* __apply_source_to_target on its own: one attempt of the target phase,   *)
(* for any set of desired rules and any state of the target.  RuleC shares *)
(* its packet filter with RuleA and its owners with RuleA and RuleB; the   *)
(* target may hold filters and owners no rule references, and rules whose  *)
(* filter or owners it does not hold.                                      *)
(***************************************************************************)
RuleC == Rule("RuleC", F1, {O1, O2})
ApplyRules == Rules \cup {RuleC}

\* run() has read the desired rules and enters __apply_source_to_target_with_retries.
InitApply ==
    /\ pc = "before"
    /\ phase = "target"
    /\ retry = [count |-> 1, timeout |-> 1, delay |-> 1]  \* a single attempt
    /\ attempt_number = 1
    /\ clock = 0
    /\ outcome = NoError
    /\ pending = NoError
    /\ inst = <<"source", 1>>
    /\ inst_users = {}
    /\ open_sessions = {}
    /\ close_raised = {}
    /\ n_create = 0
    /\ n_sleep = 0
    /\ slept = 0
    /\ all_recoverable = TRUE
    /\ desired \in SUBSET ApplyRules
    /\ tgt \in [rules : SUBSET ApplyRules, filters : SUBSET Filters, owners : SUBSET Owners]
    /\ existing = EmptyState
    /\ todo = {}
    /\ calls = <<>>
    /\ raised_at = 0
    /\ n_apply = 0
    /\ result = "none"
    /\ cause = NoError
    /\ FinderIdle
    /\ IdentityIdle
    /\ ExecutorIdle
    /\ ReaderIdle
    /\ EntitiesIdle
    /\ NamerIdle
    /\ NoEarlierRun

NextApply ==
    \/ RecreateBeforeRetry
    \/ Open
    \/ ReadAllRules
    \/ ReadAllFilters
    \/ ReadAllOwners
    \/ DeleteRule
    \/ DeleteFilter
    \/ DeleteOwner
    \/ AddOwner
    \/ AddFilter
    \/ AddRule
    \/ ApplyChanges
    \/ Close
    \/ TargetDone
    \/ IterReraise
    \/ IterStop

SpecApply == InitApply /\ [][NextApply]_vars

(***************************************************************************)
(* The discrepancy finder on its own: any desired and existing set of one  *)
(* entity kind.  Two elements may share an identifier and differ in value  *)
(* (a record may carry its own identifier).                                *)
(***************************************************************************)
FdElements == [identifier : {"X-1", "X-2"}, content : {"a", "b"}]

\* No Developer is running.
DeveloperIdle ==
    /\ pc = "idle"
    /\ phase = "none"
    /\ retry = NoPolicy
    /\ attempt_number = 0
    /\ clock = 0
    /\ outcome = NoError
    /\ pending = NoError
    /\ inst = <<"none", 0>>
    /\ inst_users = {}
    /\ open_sessions = {}
    /\ close_raised = {}
    /\ n_create = 0
    /\ n_sleep = 0
    /\ slept = 0
    /\ all_recoverable = TRUE
    /\ desired = {}
    /\ tgt = EmptyState
    /\ existing = EmptyState
    /\ todo = {}
    /\ calls = <<>>
    /\ raised_at = 0
    /\ n_apply = 0
    /\ result = "none"
    /\ cause = NoError

InitFinder ==
    /\ DeveloperIdle
    /\ IdentityIdle
    /\ ExecutorIdle
    /\ ReaderIdle
    /\ EntitiesIdle
    /\ NamerIdle
    /\ NoEarlierRun
    /\ fd_desired \in SUBSET FdElements
    /\ fd_existing \in SUBSET FdElements
    /\ fd_to_add = {}
    /\ fd_to_delete = {}
    /\ fd_pc = [add |-> FALSE, delete |-> FALSE]

\* finder.get_elements_to_add()
CallGetElementsToAdd ==
    /\ ~fd_pc.add
    /\ fd_to_add' = GetElementsToAdd(fd_desired, fd_existing)
    /\ fd_pc' = [fd_pc EXCEPT !.add = TRUE]
    /\ UNCHANGED <<fd_desired, fd_existing, fd_to_delete, fd_frame>>

\* finder.get_elements_to_delete()
CallGetElementsToDelete ==
    /\ ~fd_pc.delete
    /\ fd_to_delete' = GetElementsToDelete(fd_desired, fd_existing)
    /\ fd_pc' = [fd_pc EXCEPT !.delete = TRUE]
    /\ UNCHANGED <<fd_desired, fd_existing, fd_to_add, fd_frame>>

NextFinder ==
    \/ CallGetElementsToAdd
    \/ CallGetElementsToDelete

SpecFinder == InitFinder /\ [][NextFinder]_vars

(***************************************************************************)
(* Identifiers.  Namer.generate_identifier hashes the canonical JSON dump   *)
(* of an entity; PacketFilter and Rule derive their identifier from their  *)
(* content when they are built from a raw record.  SHA-1 is taken to be    *)
(* collision-free: a digest stands for the bytes the hasher was fed.       *)
(***************************************************************************)
IDENTIFIER_PREFIX == "X-"

Range(q) == {q[i] : i \in DOMAIN q}

\* hasher.hexdigest() of a hasher fed the strings of the sequence fed.
Sha1HexDigest(fed) == [sha1 |-> fed]

\* A hasher shared between calls would digest every earlier dump as well.
GenerateIdentifierSharedHasher(json_dump) ==
    [prefix |-> IDENTIFIER_PREFIX, digest |-> Sha1HexDigest(Append(id_hashed, json_dump))]
\* Namer.generate_identifier: a new hasher, one update with the dump.
GenerateIdentifier(json_dump) ==
    [prefix |-> IDENTIFIER_PREFIX, digest |-> Sha1HexDigest(<<json_dump>>)]

\* Canonical form of a services collection: duplicates dropped, sorted.
SortServicesAsSupplied(services) == services
SortServices(services) == SelectSeq(<<"icmp", "tcp/80">>, LAMBDA v : v \in Range(services))

\* Canonical form of an owner set for the dump: sorted.
SortOwners(owners) == SelectSeq(<<"X-a", "X-b">>, LAMBDA v : v \in owners)

\* PacketFilter(services=...): the identifier hashes the canonical services.
PacketFilterDump(services) == <<"services", SortServices(services)>>
PacketFilterOf(services) ==
    [services |-> SortServices(services),
     identifier |-> GenerateIdentifier(PacketFilterDump(services))]

\* A given identifier must carry the fixed prefix.
NoIdentifier == [prefix |-> "none", digest |-> "none"]
Malformed(record) ==
    record.identifier # NoIdentifier /\ record.identifier.prefix # IDENTIFIER_PREFIX

\* Rule(**record): the identifier hashes sources and destinations in their
\* order, the packet filter and the owner set; a given identifier is not
\* part of the dump.
RuleDumpOwnersAsSupplied(record) ==
    <<"sources", record.sources, "destinations", record.destinations,
      "packet_filter", PacketFilterOf(record.packet_filter),
      "owners", record.owners>>
RuleDump(record) ==
    <<"sources", record.sources, "destinations", record.destinations,
      "packet_filter", PacketFilterOf(record.packet_filter),
      "owners", SortOwners(Range(record.owners))>>

DeserializationError == [built |-> TRUE, error |-> "DeserializationError"]

RuleOf(record) ==
    IF Malformed(record) THEN DeserializationError
    ELSE [built |-> TRUE,
          error |-> "none",
          identifier |-> GenerateIdentifier(RuleDump(record)),
          sources |-> record.sources,
          destinations |-> record.destinations,
          packet_filter |-> PacketFilterOf(record.packet_filter),
          owners |-> Range(record.owners)]

\* The dumps hashed while a record is turned into a Rule.
HashedFor(record) ==
    IF Malformed(record) THEN <<>>
    ELSE <<PacketFilterDump(record.packet_filter), RuleDump(record)>>

IsRule(r) == r.built /\ r.error = "none"

\* Raw records a reader may return.
RuleRecords ==
    LET PeerLists == {<<"10.0.0.1">>, <<"10.0.0.1", "10.0.0.2">>, <<"10.0.0.2", "10.0.0.1">>}
        ServiceLists == {<<"icmp", "tcp/80">>, <<"tcp/80", "icmp">>, <<"tcp/80", "tcp/80">>}
        OwnerLists == {<<>>, <<"X-a", "X-b">>, <<"X-b", "X-a">>}
        GivenIdentifiers == {NoIdentifier,
                             [prefix |-> "X-", digest |-> "stored"],
                             [prefix |-> "Y-", digest |-> "stored"]}
    IN  [identifier : GivenIdentifiers, sources : PeerLists,
         destinations : {<<"10.0.0.9">>, <<"10.0.0.9", "10.0.0.8">>},
         packet_filter : ServiceLists, owners : OwnerLists]

InitIdentity ==
    /\ DeveloperIdle
    /\ FinderIdle
    /\ ExecutorIdle
    /\ ReaderIdle
    /\ EntitiesIdle
    /\ NamerIdle
    /\ NoEarlierRun
    /\ id_source_record \in RuleRecords
    /\ id_target_record \in RuleRecords
    /\ id_source_rule = NotBuilt
    /\ id_target_rule = NotBuilt
    /\ id_hashed = <<>>

\* RulesSource.read_all_rules builds a Rule from a source record.
BuildSourceRule ==
    /\ id_source_rule = NotBuilt
    /\ id_source_rule' = RuleOf(id_source_record)
    /\ id_hashed' = id_hashed \o HashedFor(id_source_record)
    /\ UNCHANGED <<id_source_record, id_target_record, id_target_rule, id_frame>>

\* RulesTarget.read_all_rules builds a Rule from a target record.
BuildTargetRule ==
    /\ id_target_rule = NotBuilt
    /\ id_target_rule' = RuleOf(id_target_record)
    /\ id_hashed' = id_hashed \o HashedFor(id_target_record)
    /\ UNCHANGED <<id_source_record, id_target_record, id_source_rule, id_frame>>

NextIdentity ==
    \/ BuildSourceRule
    \/ BuildTargetRule

SpecIdentity == InitIdentity /\ [][NextIdentity]_vars

(***************************************************************************)
(* Executor (executor.py): an SSH connection to the device.  The device    *)
(* and netmiko are the environment: ConnectHandler and send_command either *)
(* return or raise, and the connection may stop being alive.               *)
(***************************************************************************)
\* stop_after_attempt(10) of _try_disconnect
DisconnectAttempts == 10

Commands == {"show version"}
DeviceOutput(command) == <<"output of", command>>

\* Executor.is_connected
IsConnectedIgnoresAlive == ex_connection = "conn"
IsConnected == ex_connection = "conn" /\ ex_alive

\* How a call of netmiko's send_command can end.
SendOutcomes == {"returned", "NetmikoBaseException", "OSError"}
\* _send_command: a netmiko error becomes ExecuteError, any other passes.
SendCommandRaises(r) ==
    CASE r = "returned"             -> "none"
      [] r = "NetmikoBaseException" -> "ExecuteError"
      [] OTHER                      -> r

\* What connect() raises for each way ConnectHandler(**device) can end.
ConnectRaisesSocketErrorForAll(r) == IF r = "returned" THEN "none" ELSE "ExecutorSocketError"
ConnectRaises(r) ==
    CASE r = "returned"                       -> "none"
      [] r = "NetmikoTimeoutException"        -> "ExecutorConnectionTimeoutError"
      [] r = "NetmikoAuthenticationException" -> "ExecutorAuthenticationError"
      [] r = "OSError"                        -> "ExecutorSocketError"
      [] OTHER                                -> r

\* Executor.__init__: no connection yet.
InitExecutor ==
    /\ DeveloperIdle
    /\ FinderIdle
    /\ IdentityIdle
    /\ ExecutorIdle
    /\ ReaderIdle
    /\ EntitiesIdle
    /\ NamerIdle
    /\ NoEarlierRun

\* The body of Executor.connect, called as op, which returns value.
ConnectAs(op, value) ==
    /\ ex_pc = "idle"
    /\ ex_sent' = <<>>
    /\ IF ~IsConnected
       THEN \E r \in {"returned", "NetmikoTimeoutException", "NetmikoAuthenticationException",
                       "OSError", "ValueError"} :
              /\ IF r = "returned"
                 THEN ex_connection' = "conn" /\ ex_alive' = TRUE
                 ELSE UNCHANGED <<ex_connection, ex_alive>>
              /\ ex_last' = [Ended(op, FALSE, ConnectRaises(r),
                                   IF r = "returned" THEN value ELSE "none", ex_alive')
                               EXCEPT !.cause = IF r = "returned" THEN "none" ELSE r]
       ELSE /\ ex_last' = Ended(op, TRUE, "none", value, ex_alive)
            /\ UNCHANGED <<ex_connection, ex_alive>>
    /\ UNCHANGED <<ex_pc, ex_attempt, ex_frame>>

\* Executor.connect
Connect ==
    /\ ConnectAs("connect", "none")
    /\ UNCHANGED <<ex_with, ex_calls>>

\* `with executor as ex:` begins: __enter__ calls connect() and returns
\* self; the body is entered only if connect() returned.
Enter ==
    /\ ex_with # "in"
    /\ ConnectAs("__enter__", "self")
    /\ ex_calls' = <<"connect">>
    /\ ex_with' = IF ex_last'.raised = "none" THEN "in" ELSE "not_entered"

\* Executor.execute
Execute ==
    /\ ex_pc = "idle"
    /\ \E command \in Commands :
        IF IsConnected
        THEN \E r \in SendOutcomes :
               /\ ex_sent' = <<command>>
               /\ ex_last' = Ended("execute", TRUE, SendCommandRaises(r),
                                   IF r = "returned" THEN DeviceOutput(command) ELSE "none",
                                   ex_alive)
        ELSE /\ ex_sent' = <<>>
             /\ ex_last' = Ended("execute", FALSE, "NoConnectionError", "none", ex_alive)
    /\ UNCHANGED <<ex_pc, ex_connection, ex_alive, ex_attempt, ex_with, ex_calls, ex_frame>>

\* __exit__ calls disconnect() whether or not the body raised.
ExitSkipsDisconnectOnError == ex_last.raised = "none"
ExitDisconnects == TRUE

\* Executor.disconnect, up to the call of _try_disconnect.
DisconnectBegins ==
    /\ ex_pc = "idle"
    /\ ex_sent' = <<>>
    /\ IF IsConnected
       THEN /\ ex_pc' = "try_disconnect"
            /\ ex_attempt' = 1
            /\ ex_last' = NoCall
       ELSE /\ ex_last' = Ended("disconnect", FALSE, "none", "none", ex_alive)
            /\ UNCHANGED <<ex_pc, ex_attempt>>
    /\ UNCHANGED <<ex_connection, ex_alive, ex_frame>>

Disconnect ==
    /\ DisconnectBegins
    /\ UNCHANGED <<ex_with, ex_calls>>

\* The with statement ends, after the body returned or raised: __exit__.
Exit ==
    /\ ex_with = "in"
    /\ ex_pc = "idle"
    /\ ex_with' = "left"
    /\ IF ExitDisconnects
       THEN /\ DisconnectBegins
            /\ ex_calls' = Append(ex_calls, "disconnect")
       ELSE /\ ex_last' = Ended("__exit__", IsConnected, "none", "none", ex_alive)
            /\ UNCHANGED <<ex_pc, ex_connection, ex_alive, ex_attempt, ex_sent, ex_calls, ex_frame>>

\* stop=stop_after_attempt(10)
StopAfterAttemptOffByOne(n) == n > DisconnectAttempts
StopAfterAttempt(n) == n >= DisconnectAttempts

\* One attempt of _try_disconnect under @retry, and what follows it: any
\* exception of the attempt is retried after the fixed wait until the stop
\* condition holds, then RetryError makes disconnect() raise
\* ExecutorDisconnectTimeoutError; a return ends disconnect(), which clears
\* the connection.
AttemptEnds(failed) ==
    IF ~failed
    THEN /\ ex_connection' = "none"
         /\ ex_pc' = "idle"
         /\ ex_last' = Ended("disconnect", TRUE, "none", "none", ex_alive')
         /\ UNCHANGED ex_attempt
    ELSE IF StopAfterAttempt(ex_attempt)
    THEN /\ ex_pc' = "idle"
         /\ ex_last' = Ended("disconnect", TRUE, "ExecutorDisconnectTimeoutError", "none", ex_alive')
         /\ UNCHANGED <<ex_connection, ex_attempt>>
    ELSE /\ ex_attempt' = ex_attempt + 1
         /\ UNCHANGED <<ex_pc, ex_connection, ex_last>>

TryDisconnect ==
    /\ ex_pc = "try_disconnect"
    /\ IF IsConnected
       THEN \E r \in SendOutcomes, a \in BOOLEAN :
              /\ ex_sent' = Append(ex_sent, "exit")
              /\ ex_alive' = a
              /\ AttemptEnds(r # "returned" \/ a)
       ELSE /\ UNCHANGED <<ex_sent, ex_alive>>
            /\ AttemptEnds(FALSE)
    /\ UNCHANGED <<ex_with, ex_calls, ex_frame>>

\* The connection stops being alive (the device or the network closed it).
ConnectionLost ==
    /\ ex_connection = "conn"
    /\ ex_alive
    /\ ex_alive' = FALSE
    /\ UNCHANGED <<ex_pc, ex_connection, ex_attempt, ex_sent, ex_last, ex_with, ex_calls, ex_frame>>

NextExecutor ==
    \/ Enter
    \/ Exit
    \/ Connect
    \/ Execute
    \/ Disconnect
    \/ TryDisconnect
    \/ ConnectionLost

SpecExecutor == InitExecutor /\ [][NextExecutor]_vars

(***************************************************************************)
(* JSONFileReader (json_file_reader.py): open, close, the cached           *)
(* _file_decoded and the three reads, called directly or through a with    *)
(* statement.                                                              *)
(***************************************************************************)
ReaderEnded(op, raised, value) == [op |-> op, raised |-> raised, value |-> value]

\* What the file holds: text that is not JSON, a JSON value that is not an
\* array, or an array of entries (dicts with or without the keys, or not
\* dicts).
FileContents ==
    LET FullRecord == [kind |-> "dict", packet_filter |-> "F1", owners |-> <<"O1", "O2">>]
        BareRecord == [kind |-> "dict"]
        NotADict == [kind |-> "str"]
    IN  {[json |-> "invalid"], [json |-> "object"],
         [json |-> "array", data |-> <<>>],
         [json |-> "array", data |-> <<FullRecord, NotADict, BareRecord>>]}

\* `if self._file:`
FileIsSetEvenIfNone == TRUE
FileIsSet == jr_file = "open"

\* How Path.open and file.close can end.
IoOutcomes == {"returned", "OSError"}

RECURSIVE Flatten(_)
Flatten(lists) == IF lists = <<>> THEN <<>> ELSE Head(lists) \o Flatten(Tail(lists))
RECURSIVE Pick(_, _)
Pick(data, key) ==
    LET HasKey(rule) == rule.kind = "dict" /\ key \in DOMAIN rule
    IN  IF data = <<>> THEN <<>>
        ELSE (IF HasKey(Head(data)) THEN <<Head(data)[key]>> ELSE <<>>) \o Pick(Tail(data), key)

\* What a read makes of the decoded list.
ReadOps == {"read_all_rules", "read_all_filters", "read_all_owners"}
ReadValue(op, data) ==
    CASE op = "read_all_rules"   -> data
      [] op = "read_all_filters" -> Pick(data, "packet_filter")
      [] op = "read_all_owners"  -> Flatten(Pick(data, "owners"))

\* JSONFileReader.open: what it raises, and the file afterwards.
OpenRaises(r) == IF FileIsSet \/ r = "returned" THEN "none" ELSE "FileAccessError"
FileAfterOpen(r) == IF FileIsSet \/ r = "returned" THEN "open" ELSE "none"
\* A file object that open() has just made is at the start of the file.
ConsumedAfterOpen(r) == IF ~FileIsSet /\ r = "returned" THEN FALSE ELSE jr_consumed
\* JSONFileReader.close
CloseRaises(r) == IF FileIsSet /\ r # "returned" THEN "FileAccessError" ELSE "none"
FileAfterClose(r) == IF FileIsSet /\ r # "returned" THEN jr_file ELSE "none"

InitReader ==
    /\ DeveloperIdle
    /\ FinderIdle
    /\ IdentityIdle
    /\ ExecutorIdle
    /\ EntitiesIdle
    /\ NamerIdle
    /\ NoEarlierRun
    /\ jr_file = "none"
    /\ jr_content \in FileContents
    /\ jr_cache = Unset
    /\ jr_opened = FALSE
    /\ jr_with = "out"
    /\ jr_calls = <<>>
    /\ jr_last = NoReaderCall
    /\ jr_consumed = FALSE

\* reader.open()
ReaderOpen ==
    /\ \E r \in IoOutcomes :
        /\ jr_file' = FileAfterOpen(r)
        /\ jr_opened' = (jr_opened \/ (~FileIsSet /\ r = "returned"))
        /\ jr_last' = ReaderEnded("open", OpenRaises(r), "none")
        /\ jr_consumed' = ConsumedAfterOpen(r)
    /\ UNCHANGED <<jr_content, jr_cache, jr_with, jr_calls, jr_frame>>

\* reader.close()
ReaderClose ==
    /\ \E r \in IoOutcomes :
        /\ jr_file' = FileAfterClose(r)
        /\ jr_last' = ReaderEnded("close", CloseRaises(r), "none")
    /\ UNCHANGED <<jr_content, jr_cache, jr_opened, jr_with, jr_calls, jr_consumed, jr_frame>>

\* `with reader:` begins: __enter__ calls open(); the body is entered only
\* if open() returned.
ReaderEnter ==
    /\ jr_with = "out"
    /\ \E r \in IoOutcomes :
        /\ jr_calls' = <<"open">>
        /\ jr_file' = FileAfterOpen(r)
        /\ jr_opened' = (jr_opened \/ (~FileIsSet /\ r = "returned"))
        /\ jr_last' = ReaderEnded("__enter__", OpenRaises(r), "none")
        /\ jr_with' = IF OpenRaises(r) = "none" THEN "in" ELSE "out"
        /\ jr_consumed' = ConsumedAfterOpen(r)
    /\ UNCHANGED <<jr_content, jr_cache, jr_frame>>

\* The with statement ends: __exit__ calls close().
ReaderExit ==
    /\ jr_with = "in"
    /\ \E r \in IoOutcomes :
        /\ jr_calls' = Append(jr_calls, "close")
        /\ jr_file' = FileAfterClose(r)
        /\ jr_last' = ReaderEnded("__exit__", CloseRaises(r), "none")
    /\ jr_with' = "out"
    /\ UNCHANGED <<jr_content, jr_cache, jr_opened, jr_consumed, jr_frame>>

\* @cached_property: the value _file_decoded returned is kept in the
\* instance and returned from then on.
IsCachedWhileOpen == jr_cache # Unset /\ FileIsSet
IsCached == jr_cache # Unset

\* read_all_rules, read_all_filters or read_all_owners: each takes
\* _file_decoded, a cached_property that keeps the list once one was
\* returned, and raises again on every call while none was.  json.load
\* reads the file object from its position: after an earlier json.load on
\* the same file object nothing is left to decode.
ReaderRead ==
    /\ \E op \in ReadOps :
        IF IsCached
        THEN /\ jr_last' = ReaderEnded(op, "none", ReadValue(op, jr_cache.data))
             /\ UNCHANGED <<jr_cache, jr_consumed>>
        ELSE IF ~FileIsSet
        THEN /\ jr_last' = ReaderEnded(op, "FileNotOpenedError", "none")
             /\ UNCHANGED <<jr_cache, jr_consumed>>
        ELSE IF jr_consumed \/ jr_content.json # "array"
        THEN /\ jr_last' = ReaderEnded(op, "NotJSONArrayError", "none")
             /\ jr_consumed' = TRUE
             /\ UNCHANGED jr_cache
        ELSE /\ jr_cache' = [set |-> TRUE, data |-> jr_content.data]
             /\ jr_consumed' = TRUE
             /\ jr_last' = ReaderEnded(op, "none", ReadValue(op, jr_content.data))
    /\ UNCHANGED <<jr_file, jr_content, jr_opened, jr_with, jr_calls, jr_frame>>

\* The file is written by something else while the reader exists.
FileRewritten ==
    /\ jr_content' \in FileContents \ {jr_content}
    /\ UNCHANGED <<jr_file, jr_cache, jr_opened, jr_with, jr_calls, jr_last, jr_consumed, jr_frame>>

NextReader ==
    \/ ReaderOpen
    \/ ReaderClose
    \/ ReaderEnter
    \/ ReaderExit
    \/ ReaderRead
    \/ FileRewritten

SpecReader == InitReader /\ [][NextReader]_vars

(***************************************************************************)
(* RuleFilter and RulePeer (rule.py): pydantic models whose field          *)
(* validators normalise or reject the given values.  Fields are validated  *)
(* in declaration order; a validator sees in info.data the fields that     *)
(* validated before it.  An optional value is <<>> (None) or <<v>>.        *)
(***************************************************************************)
None == <<>>
Some(v) == <<v>>
ValueOf(o) == o[1]

\* The outcome of validating one field.
Invalid == [ok |-> FALSE, error |-> "ValidationError"]
Valid(v) == [ok |-> TRUE, value |-> v]
\* info.data.get(key)
DataGet(data, key) == IF key \in DOMAIN data THEN data[key] ELSE None
\* info.data once a field was validated: a failed field is left out.
WithField(data, key, checked) == IF checked.ok THEN data @@ (key :> checked.value) ELSE data
ValidationError == [built |-> TRUE, error |-> "ValidationError"]

\* RuleFilter.tcpudp_has_port_low
tcpudp_has_port_low(value, data) ==
    IF DataGet(data, "protocol") = Some("icmp") THEN Valid(None)
    ELSE IF value = None THEN Invalid
    ELSE Valid(value)

\* RuleFilter.port_high_ge_low
port_high_ge_low_keeps_equal(value, data) ==
    LET port_low == DataGet(data, "port_low") IN
    IF port_low = None \/ value = None THEN Valid(None)
    ELSE IF ValueOf(value) < ValueOf(port_low) THEN Invalid
    ELSE IF ValueOf(port_low) = 0 THEN Invalid
    ELSE Valid(value)
port_high_ge_low(value, data) ==
    LET port_low == DataGet(data, "port_low") IN
    IF port_low = None \/ value = None \/ value = port_low THEN Valid(None)
    ELSE IF ValueOf(value) < ValueOf(port_low) THEN Invalid
    ELSE IF ValueOf(port_low) = 0 THEN Invalid
    ELSE Valid(value)

\* RuleFilter(protocol=..., port_low=..., port_high=...).  protocol is
\* Literal['tcp', 'udp', 'icmp']; a port is Annotated[int | None,
\* Field(ge=0, le=65535)], with the range scaled to 0..MaxPort.  A field's
\* after-validator runs when the field's own validation passed.
RuleFilter(args) ==
    LET Protocol(value) ==
            IF value \in {"tcp", "udp", "icmp"} THEN Valid(Some(value)) ELSE Invalid
        Port(value) ==
            IF value = None \/ ValueOf(value) \in 0..MaxPort THEN Valid(value) ELSE Invalid
        After(checked, validator(_, _), data) ==
            IF checked.ok THEN validator(checked.value, data) ELSE checked
        protocol == Protocol(args.protocol)
        data1 == WithField(<<>>, "protocol", protocol)
        port_low == After(Port(args.port_low), tcpudp_has_port_low, data1)
        data2 == WithField(data1, "port_low", port_low)
        port_high == After(Port(args.port_high), port_high_ge_low, data2)
    IN  IF protocol.ok /\ port_low.ok /\ port_high.ok
        THEN [built |-> TRUE, error |-> "none", protocol |-> ValueOf(protocol.value),
              port_low |-> port_low.value, port_high |-> port_high.value]
        ELSE ValidationError

\* ip_low: IPv4Address | IPv4Network, ip_high: IPv4Address | None.  An
\* address is a number in 0..MaxAddress; a network is known by its first
\* address.
Address(a) == [kind |-> "address", address |-> a]
Network(a) == [kind |-> "network", address |-> a]
NotAnAddress == [kind |-> "invalid"]

\* RulePeer.ip_high_ge_low
ip_high_ge_low_allows_network(value, data) ==
    LET ip_low == DataGet(data, "ip_low") IN
    IF value = None THEN Valid(None)
    ELSE IF ip_low = None THEN [ok |-> FALSE, error |-> "TypeError"]
    ELSE IF ValueOf(value).address < ip_low.address THEN Invalid
    ELSE IF ValueOf(value) = ip_low THEN Valid(None)
    ELSE Valid(value)
ip_high_ge_low(value, data) ==
    LET ip_low == DataGet(data, "ip_low") IN
    IF value = None THEN Valid(None)
    ELSE IF ip_low = None THEN [ok |-> FALSE, error |-> "TypeError"]
    ELSE IF ip_low.kind = "network" THEN Invalid
    ELSE IF ValueOf(value).address < ip_low.address THEN Invalid
    ELSE IF ValueOf(value) = ip_low THEN Valid(None)
    ELSE Valid(value)

\* RulePeer(ip_low=..., ip_high=...)
RulePeer(args) ==
    LET IpLow(value) ==
            IF value.kind \in {"address", "network"} THEN Valid(value) ELSE Invalid
        IpHigh(value) ==
            IF value = None \/ ValueOf(value).kind = "address" THEN Valid(value) ELSE Invalid
        After(checked, validator(_, _), data) ==
            IF checked.ok THEN validator(checked.value, data) ELSE checked
        ip_low == IpLow(args.ip_low)
        data1 == WithField(<<>>, "ip_low", ip_low)
        ip_high == After(IpHigh(args.ip_high), ip_high_ge_low, data1)
    IN  IF ip_low.ok /\ ip_high.ok
        THEN [built |-> TRUE, error |-> "none", ip_low |-> ip_low.value, ip_high |-> ip_high.value]
        ELSE IF ~ip_high.ok /\ ip_high.error = "TypeError"
        THEN [built |-> TRUE, error |-> "TypeError"]
        ELSE ValidationError

\* Arguments a caller may give.
RuleFilterArgs ==
    LET GivenPorts == {None} \cup {Some(n) : n \in -1..(MaxPort + 1)}
    IN  [given : {TRUE}, protocol : {"tcp", "udp", "icmp", "invalid"},
         port_low : GivenPorts, port_high : GivenPorts]
RulePeerArgs ==
    LET GivenLows == {Address(a) : a \in 0..MaxAddress} \cup {Network(a) : a \in 0..MaxAddress}
                        \cup {NotAnAddress}
        GivenHighs == {None, Some(NotAnAddress)} \cup {Some(Address(a)) : a \in 0..MaxAddress}
    IN  [given : {TRUE}, ip_low : GivenLows, ip_high : GivenHighs]

InitEntities ==
    /\ DeveloperIdle
    /\ FinderIdle
    /\ IdentityIdle
    /\ ExecutorIdle
    /\ ReaderIdle
    /\ NamerIdle
    /\ NoEarlierRun
    /\ rf_args \in RuleFilterArgs
    /\ rf_made = NotBuilt
    /\ rp_args \in RulePeerArgs
    /\ rp_made = NotBuilt

BuildRuleFilter ==
    /\ rf_made = NotBuilt
    /\ rf_made' = RuleFilter(rf_args)
    /\ UNCHANGED <<rf_args, rp_args, rp_made, en_frame>>

BuildRulePeer ==
    /\ rp_made = NotBuilt
    /\ rp_made' = RulePeer(rp_args)
    /\ UNCHANGED <<rp_args, rf_args, rf_made, en_frame>>

NextEntities ==
    \/ BuildRuleFilter
    \/ BuildRulePeer

SpecEntities == InitEntities /\ [][NextEntities]_vars

(***************************************************************************)
(* Namer.generate_identifier (namer.py) computed in full: the string is    *)
(* encoded as UTF-8, hashed with SHA-1 and the 40 hex digits of the digest *)
(* are put after the prefix.  A string is the sequence of its code points, *)
(* a 32-bit word the pair of its 16-bit halves.  Strings of up to 55 bytes *)
(* are hashed, which SHA-1 pads to a single 64-byte block.                 *)
(***************************************************************************)
Half == 2^16

\* json_dump.encode(): the UTF-8 bytes of one code point.
EncodeLatin1(cp) == <<cp % 256>>
Encode(cp) ==
    IF cp < 128 THEN <<cp>>
    ELSE IF cp < 2048 THEN <<192 + (cp \div 64), 128 + (cp % 64)>>
    ELSE <<224 + (cp \div 4096), 128 + ((cp \div 64) % 64), 128 + (cp % 64)>>
RECURSIVE EncodeAll(_)
EncodeAll(str) == IF str = <<>> THEN <<>> ELSE Encode(Head(str)) \o EncodeAll(Tail(str))

\* Bitwise operations on 16-bit numbers and on words.
RECURSIVE And16(_, _)
And16(a, b) == IF a = 0 \/ b = 0 THEN 0 ELSE ((a % 2) * (b % 2)) + 2 * And16(a \div 2, b \div 2)
WAnd(x, y) == <<And16(x[1], y[1]), And16(x[2], y[2])>>
WXor(x, y) == <<x[1] + y[1] - 2 * And16(x[1], y[1]), x[2] + y[2] - 2 * And16(x[2], y[2])>>
WOr(x, y) == <<x[1] + y[1] - And16(x[1], y[1]), x[2] + y[2] - And16(x[2], y[2])>>
WNot(x) == <<(Half - 1) - x[1], (Half - 1) - x[2]>>
\* Addition modulo 2^32.
WAdd(x, y) == <<(x[1] + y[1] + ((x[2] + y[2]) \div Half)) % Half, (x[2] + y[2]) % Half>>
\* Rotation to the left by n bits, 0 < n < 32.
Rotl(x, n) ==
    LET RotlBelow16(y, k) ==
            <<((y[1] * 2^k) % Half) + (y[2] \div 2^(16 - k)),
              ((y[2] * 2^k) % Half) + (y[1] \div 2^(16 - k))>>
    IN  IF n < 16 THEN RotlBelow16(x, n) ELSE RotlBelow16(<<x[2], x[1]>>, n - 16)

\* SHA-1: the initial chaining value.
InitialHash == <<<<26437, 8961>>, <<61389, 43913>>, <<39098, 56574>>, <<4146, 21622>>, <<50130, 57840>>>>

\* The padded block of a message of at most 55 bytes: the bytes, 0x80,
\* zeros, and the length in bits as a 64-bit number.
Pad(bytes) ==
    bytes \o <<128>> \o [i \in 1..(55 - Len(bytes)) |-> 0]
          \o <<0, 0, 0, 0, 0, 0, (8 * Len(bytes)) \div 256, (8 * Len(bytes)) % 256>>
\* The 16 big-endian words of a block.
BlockWords(block) ==
    [i \in 1..16 |-> <<256 * block[4 * i - 3] + block[4 * i - 2],
                       256 * block[4 * i - 1] + block[4 * i]>>]
\* Word t (from 0) of the message schedule, given the words before it.
ScheduleWord(w, t) ==
    IF t < 16 THEN w[t + 1]
    ELSE Rotl(WXor(WXor(w[t - 2], w[t - 7]), WXor(w[t - 13], w[t - 15])), 1)

\* Round t on the working variables <<a, b, c, d, e>> with schedule word wt.
RoundOf(v, t, wt) ==
    LET RoundConstant ==
            CASE t < 20 -> <<23170, 31129>>
              [] t < 40 -> <<28377, 60321>>
              [] t < 60 -> <<36635, 48348>>
              [] OTHER  -> <<51810, 49622>>
        RoundFunction(b, c, d) ==
            CASE t < 20 -> WOr(WAnd(b, c), WAnd(WNot(b), d))
              [] t < 40 -> WXor(WXor(b, c), d)
              [] t < 60 -> WOr(WOr(WAnd(b, c), WAnd(b, d)), WAnd(c, d))
              [] OTHER  -> WXor(WXor(b, c), d)
    IN  <<WAdd(WAdd(WAdd(Rotl(v[1], 5), RoundFunction(v[2], v[3], v[4])),
                    WAdd(v[5], RoundConstant)), wt),
          v[1], Rotl(v[2], 30), v[3], v[4]>>

\* hexdigest(): eight lowercase hex digits per word.
HexDigits == <<"0", "1", "2", "3", "4", "5", "6", "7", "8", "9", "a", "b", "c", "d", "e", "f">>
HexDigest(h) ==
    LET Hex16(n) == <<HexDigits[(n \div 4096) + 1], HexDigits[((n \div 256) % 16) + 1],
                      HexDigits[((n \div 16) % 16) + 1], HexDigits[(n % 16) + 1]>>
        HexWord(x) == Hex16(x[1]) \o Hex16(x[2])
    IN  HexWord(h[1]) \o HexWord(h[2]) \o HexWord(h[3]) \o HexWord(h[4]) \o HexWord(h[5])

\* Strings given to generate_identifier, as code points: those of
\* test_generate_name, and two with characters outside ASCII.
NamerInputs ==
    {<<>>,  \* ''
     <<91, 93>>,  \* '[]'
     <<123, 125>>,  \* '{}'
     <<123, 34, 120, 34, 58, 32, 52, 125>>,  \* '{"x": 4}'
     <<91, 10, 32, 32, 123, 10, 32, 32, 32, 32, 34, 103, 34, 58, 32, 34, 104,
       34, 10, 32, 32, 125, 10, 93>>,
     <<233>>,  \* e with acute accent, U+00E9
     <<8364>>}  \* the euro sign, U+20AC

\* A call of generate_identifier: a fresh hasher (hashlib.sha1()) is fed the
\* encoded string; the rounds of the single block follow one at a time.
GenerateIdentifierCall ==
    /\ nm_pc \in {"idle", "returned"}
    /\ \E str \in NamerInputs :
        /\ nm_string' = str
        /\ nm_schedule' = BlockWords(Pad(EncodeAll(str)))
    /\ nm_hash' = InitialHash
    /\ nm_work' = InitialHash
    /\ nm_round' = 0
    /\ nm_pc' = "hashing"
    /\ nm_identifier' = NotReturned
    /\ UNCHANGED <<nm_issued, nm_frame>>

HashRound ==
    /\ nm_pc = "hashing"
    /\ nm_round < 80
    /\ LET wt == ScheduleWord(nm_schedule, nm_round) IN
        /\ nm_schedule' = IF nm_round < 16 THEN nm_schedule ELSE Append(nm_schedule, wt)
        /\ nm_work' = RoundOf(nm_work, nm_round, wt)
    /\ nm_round' = nm_round + 1
    /\ UNCHANGED <<nm_pc, nm_string, nm_hash, nm_identifier, nm_issued, nm_frame>>

\* hexdigest() and the return of the prefixed identifier.
GenerateIdentifierReturn ==
    /\ nm_pc = "hashing"
    /\ nm_round = 80
    /\ nm_hash' = [i \in 1..5 |-> WAdd(nm_hash[i], nm_work[i])]
    /\ nm_identifier' = [prefix |-> IDENTIFIER_PREFIX, digest |-> HexDigest(nm_hash')]
    /\ nm_issued' = nm_issued \cup {<<nm_string, nm_identifier'>>}
    /\ nm_pc' = "returned"
    /\ UNCHANGED <<nm_string, nm_schedule, nm_work, nm_round, nm_frame>>

InitNamer ==
    /\ DeveloperIdle
    /\ FinderIdle
    /\ IdentityIdle
    /\ ExecutorIdle
    /\ ReaderIdle
    /\ EntitiesIdle
    /\ NamerIdle
    /\ NoEarlierRun

NextNamer ==
    \/ GenerateIdentifierCall
    \/ HashRound
    \/ GenerateIdentifierReturn

SpecNamer == InitNamer /\ [][NextNamer]_vars

(***************************************************************************)
(* Properties.                                                             *)
(***************************************************************************)
IsMutation(c) == c \in DeleteSteps \cup AddSteps
IsApply(c) == c = "apply_changes"
IsClose(c) == c = "close"
Rank(c) ==
    CASE c = "delete_rule"   -> 1
      [] c = "delete_filter" -> 2
      [] c = "delete_owner"  -> 3
      [] c = "add_owner"     -> 4
      [] c = "add_filter"    -> 5
      [] c = "add_rule"      -> 6
      [] OTHER               -> 0
Last(q) == q[Len(q)]
AttemptOver == pc \in {"iter", "before", "done"}
InSession == pc \in ReadCalls \cup DeleteSteps \cup AddSteps
                      \cup {"src_read_all_rules", "apply_changes", "close"}
PhaseError == IF phase = "source" THEN "SourceError" ELSE "TargetError"
AtLeastOne(n) == IF n < 1 THEN 1 ELSE n

\* C1: within one attempt the mutation calls are issued in the order
\* delete_rule, delete_filter, delete_owner, add_owner, add_filter, add_rule:
\* no call of a later kind is ever followed by a call of an earlier kind, so
\* all deletions precede all additions.
C1_OrderedApply ==
    \A i, j \in DOMAIN calls :
        (i < j /\ IsMutation(calls[i]) /\ IsMutation(calls[j]))
            => Rank(calls[i]) <= Rank(calls[j])

\* The scenario of the specification: desired {RuleA}, existing {RuleB}.
C1_Witness ==
    /\ desired = {RuleA}
    /\ existing = [rules |-> {RuleB}, filters |-> {F2}, owners |-> {O2}]
    /\ SelectSeq(calls, LAMBDA c : IsMutation(c) \/ IsApply(c))
         = <<"delete_rule", "delete_filter", "delete_owner",
             "add_owner", "add_filter", "add_rule", "apply_changes">>

\* C2: once a call of the attempt's work has raised, the only call still
\* issued in that attempt is close: no call of a later step and no
\* apply_changes; a failure in a delete step means no add_* call at all.
C2_FailureAbortsRemainingSteps ==
    /\ raised_at > 0 => \A i \in DOMAIN calls : i > raised_at => IsClose(calls[i])
    /\ (raised_at > 0 /\ calls[raised_at] \in DeleteSteps)
            => \A i \in DOMAIN calls : calls[i] \notin AddSteps /\ ~IsApply(calls[i])

C2_Witness ==
    /\ pc = "iter"
    /\ raised_at > 0
    /\ calls[raised_at] = "delete_rule"
    /\ GetElementsToAdd(Desired.rules, existing.rules) # {}
    /\ GetElementsToDelete(Desired.filters, existing.filters) # {}

\* C3: nothing but close follows apply_changes in an attempt; an attempt of
\* the target phase whose reads and six steps completed calls apply_changes
\* exactly once, as the last call before close, with the session still open.
StepsCompleted ==
    /\ phase = "target"
    /\ pc = "iter"
    /\ \E i \in DOMAIN calls : calls[i] = "read_all_owners"
    /\ raised_at = 0 \/ IsApply(calls[raised_at])

C3_SingleCommitLast ==
    /\ \A i, j \in DOMAIN calls : (i < j /\ IsApply(calls[i])) => IsClose(calls[j])
    /\ StepsCompleted =>
          /\ Len(SelectSeq(calls, IsApply)) = 1
          /\ IsClose(Last(calls))
          /\ IsApply(calls[Len(calls) - 1])
    /\ pc = "apply_changes" => inst \in open_sessions

C3_Witness ==
    /\ StepsCompleted
    /\ raised_at = 0
    /\ \E i \in DOMAIN calls : calls[i] = "add_rule"
    /\ \E i \in DOMAIN calls : calls[i] = "delete_rule"

C5_FatalEndsPhase ==
    pending.kind = "Fatal" => attempt_number = pending.at

\* C6: no instance is called by two attempts; every attempt runs on the
\* instance created for it; create() has been called once per attempt begun.
C6_FreshInstancePerAttempt ==
    /\ \A u, v \in inst_users : u[1] = v[1] => u[2] = v[2]
    /\ \A u \in inst_users : u[1] = <<phase, u[2]>>
    /\ pc = "before" => n_create = attempt_number - 1
    /\ (phase # "none" /\ pc # "before") => n_create = attempt_number

C6_Witness ==
    /\ pc = "iter"
    /\ attempt_number = 2
    /\ Cardinality(inst_users) = 2
    /\ n_create = 2

\* C7: run() ends by returning or by raising SourceError or TargetError.
C7_OnlyTerminalErrors ==
    pc = "done" => result \in {"ok", "SourceError", "TargetError"}

C10_ToAddIsDesiredMinusExisting ==
    fd_pc.add =>
        /\ \A x \in FdElements : x \in fd_to_add <=> (x \in fd_desired /\ x \notin fd_existing)
        /\ fd_desired = {} => fd_to_add = {}
        /\ fd_existing = {} => fd_to_add = fd_desired
        /\ fd_desired = fd_existing => fd_to_add = {}
        /\ fd_desired \cap fd_existing = {} => fd_to_add = fd_desired
        /\ fd_desired \subseteq fd_existing => fd_to_add = {}

\* Partial overlap, with an element to add that shares its identifier with an
\* existing element of another value.
C10_Witness ==
    /\ fd_pc.add
    /\ fd_desired \cap fd_existing # {}
    /\ fd_existing \ fd_desired # {}
    /\ \E x \in fd_to_add : \E e \in fd_existing : x.identifier = e.identifier

\* C11: get_elements_to_delete() returns exactly the identifiers of the
\* elements of the existing set that are not, by value, in the desired set.
C11_ToDeleteIsIdsOfExistingMinusDesired ==
    fd_pc.delete =>
        /\ \A i \in {x.identifier : x \in FdElements} :
              i \in fd_to_delete <=>
                  \E e \in fd_existing : e.identifier = i /\ e \notin fd_desired
        /\ fd_desired = {} => fd_to_delete = {e.identifier : e \in fd_existing}
        /\ fd_existing = {} => fd_to_delete = {}
        /\ fd_desired = fd_existing => fd_to_delete = {}
        /\ fd_desired \cap fd_existing = {} => fd_to_delete = {e.identifier : e \in fd_existing}
        /\ fd_existing \subseteq fd_desired => fd_to_delete = {}

\* Desired a proper subset of existing, with an element kept whose identifier
\* is also the identifier of an element to delete.
C11_Witness ==
    /\ fd_pc.delete
    /\ fd_desired # {}
    /\ fd_desired \subseteq fd_existing
    /\ fd_desired # fd_existing
    /\ \E d \in fd_desired : d.identifier \in fd_to_delete

SameContent(a, b) ==
    /\ a.sources = b.sources
    /\ a.destinations = b.destinations
    /\ Range(a.packet_filter) = Range(b.packet_filter)
    /\ Range(a.owners) = Range(b.owners)

BothBuilt == IsRule(id_source_rule) /\ IsRule(id_target_rule)

IsPermutation(p, q) ==
    /\ Len(p) = Len(q)
    /\ \A v \in Range(p) \cup Range(q) :
          Cardinality({i \in DOMAIN p : p[i] = v}) = Cardinality({i \in DOMAIN q : q[i] = v})

C14_FilterIdentifierOrderIndependent ==
    (BothBuilt /\ IsPermutation(id_source_record.packet_filter, id_target_record.packet_filter)) =>
        id_source_rule.packet_filter.identifier = id_target_rule.packet_filter.identifier

C14_Witness ==
    /\ BothBuilt
    /\ id_source_record.packet_filter = <<"icmp", "tcp/80">>
    /\ id_target_record.packet_filter = <<"tcp/80", "icmp">>
    /\ id_source_rule.packet_filter.identifier = id_target_rule.packet_filter.identifier

\* C15: after read_all_rules of the source raised the fatal error of a
\* malformed record, the source phase makes no further attempt and run()
\* ends by raising SourceError.
C15_MalformedRecordEndsSourcePhase ==
    (phase = "source" /\ pending = MalformedRecordError(pending.at)) =>
        /\ attempt_number = pending.at
        /\ pc = "done" => result = "SourceError"

\* The executor held a connection and it was alive when the last call ended
\* (execute() does not change either).
HadLiveConnection == ex_connection = "conn" /\ ex_last.alive

\* C16 as stated: execute() without a live connection raises
\* NoConnectionError and sends nothing; with one it sends the command once
\* and returns the device output.
C16_Original ==
    ex_last.op = "execute" =>
        IF HadLiveConnection
        THEN /\ Len(ex_sent) = 1
             /\ ex_last.raised = "none"
             /\ ex_last.value = DeviceOutput(ex_sent[1])
        ELSE /\ ex_last.raised = "NoConnectionError"
             /\ ex_sent = <<>>

\* C16 amended: with a live connection execute() sends the command exactly
\* once, and either returns the device output or, when the send failed,
\* raises ExecuteError for a netmiko error and the send's own error
\* otherwise.
C16_ExecuteNeedsConnection ==
    ex_last.op = "execute" =>
        IF HadLiveConnection
        THEN /\ Len(ex_sent) = 1
             /\ ex_sent[1] \in Commands
             /\ \/ ex_last.raised = "none" /\ ex_last.value = DeviceOutput(ex_sent[1])
                \/ ex_last.raised \in {"ExecuteError", "OSError"} /\ ex_last.value = "none"
        ELSE /\ ex_last.raised = "NoConnectionError"
             /\ ex_last.value = "none"
             /\ ex_sent = <<>>

\* execute() on an executor whose connection object exists but is not alive.
C16_Witness ==
    /\ ex_last.op = "execute"
    /\ ex_connection = "conn"
    /\ ~ex_last.alive
    /\ ex_last.raised = "NoConnectionError"
    /\ ex_sent = <<>>


\* C17: disconnect() makes at most 10 exit attempts; a disconnect() of a live
\* connection that ends with the connection still alive has sent 10 exits
\* and raised ExecutorDisconnectTimeoutError, and one that ends with the
\* connection inactive has returned normally.
C17_DisconnectStopsOrReturns ==
    /\ ex_attempt <= DisconnectAttempts
    /\ Len(ex_sent) <= DisconnectAttempts
    /\ (ex_last.op = "disconnect" /\ ex_last.live) =>
          IF ex_last.alive
          THEN /\ ex_last.raised = "ExecutorDisconnectTimeoutError"
               /\ Len(ex_sent) = DisconnectAttempts
          ELSE ex_last.raised = "none"


\* C18: a read on a JSONFileReader that has never been opened raises
\* FileNotOpenedError; a with statement on the reader has called open exactly
\* once when its body runs, and open then close, once each, when it has ended.
C18_UnopenedReadRaisesAndContextOpensCloses ==
    /\ (jr_last.op \in ReadOps /\ ~jr_opened) =>
          jr_last.raised = "FileNotOpenedError" /\ jr_last.value = "none"
    /\ jr_with = "in" => jr_calls = <<"open">>
    /\ jr_last.op = "__exit__" => jr_calls = <<"open", "close">>

\* read_all_owners on a reader whose only open() so far failed.
C18_Witness ==
    /\ jr_last.op = "read_all_owners"
    /\ jr_last.raised = "FileNotOpenedError"
    /\ ~jr_opened
    /\ jr_calls = <<"open">>
    /\ jr_with = "out"


\* Rules on the target when a call is made.
RulesOnTarget == tgt.rules

\* C19: whenever add_rule(R) is about to be called, the target holds R's
\* packet filter and every owner of R, each read as existing and not deleted
\* in this attempt or added by an earlier add_filter / add_owner call.
C19_AddRuleFindsFilterAndOwners ==
    pc = "add_rule" =>
        \A R \in todo :
            /\ R.packet_filter \in tgt.filters
            /\ R.owners \subseteq tgt.owners
            /\ \/ R.packet_filter \in existing.filters
               \/ \E i \in 1..Len(calls) : calls[i] = "add_filter"
            /\ \A o \in R.owners :
                  \/ o \in existing.owners
                  \/ \E i \in 1..Len(calls) : calls[i] = "add_owner"

\* add_rule(RuleC) is due on a target that held neither its filter nor its
\* owners, next to a kept RuleB whose owner was there.
C19_Witness ==
    /\ pc = "add_rule"
    /\ RuleC \in todo
    /\ existing.filters = {F2}
    /\ existing.owners = {O2}
    /\ RuleB \in existing.rules
    /\ RuleB \in desired

\* C20: whenever delete_filter(F) is about to be called no rule on the
\* target references F, and whenever delete_owner(O) is about to be called
\* no rule on the target carries O.
C20_DeletedFilterOrOwnerIsUnreferenced ==
    /\ pc = "delete_filter" =>
          \A F \in todo : \A r \in RulesOnTarget : r.packet_filter.identifier # F
    /\ pc = "delete_owner" =>
          \A O \in todo : \A r \in RulesOnTarget : \A o \in r.owners : o.identifier # O

\* delete_filter(F2) is due after RuleB was deleted, with RuleA kept on the
\* target and its filter F1 not scheduled.
C20_Witness ==
    /\ pc = "delete_filter"
    /\ todo = {"F2"}
    /\ RuleB \in existing.rules
    /\ RuleA \in existing.rules
    /\ RuleA \in desired
    /\ RulesOnTarget = {RuleA}
    /\ F1 \in tgt.filters


\* Calls of the current attempt that returned: all before the one that raised.
Succeeded(name) ==
    Cardinality({i \in 1..Len(calls) : calls[i] = name /\ (raised_at = 0 \/ i < raised_at)})
\* The attempt has read the whole existing state of the target.
ExistingRead == Succeeded("read_all_owners") = 1
\* What the attempt has removed from and put on the target so far.
Removed(field) == existing[field] \ tgt[field]
Put(field) == tgt[field] \ existing[field]

\* C21: from the reads of a target attempt on, through its failure and
\* through run() raising TargetError, the target differs from what was read
\* by exactly the mutations that returned: one removed element per returned
\* delete call, each undesired and still absent, and one new element per
\* returned add call, each desired and still present.
C21_NoCompensation ==
    (phase = "target" /\ ExistingRead) =>
        /\ Removed("rules") \cap Desired.rules = {}
        /\ Removed("filters") \cap Desired.filters = {}
        /\ Removed("owners") \cap Desired.owners = {}
        /\ Put("rules") \subseteq Desired.rules
        /\ Put("filters") \subseteq Desired.filters
        /\ Put("owners") \subseteq Desired.owners
        /\ Cardinality(Removed("rules")) = Succeeded("delete_rule")
        /\ Cardinality(Removed("filters")) = Succeeded("delete_filter")
        /\ Cardinality(Removed("owners")) = Succeeded("delete_owner")
        /\ Cardinality(Put("rules")) = Succeeded("add_rule")
        /\ Cardinality(Put("filters")) = Succeeded("add_filter")
        /\ Cardinality(Put("owners")) = Succeeded("add_owner")

\* run() raised TargetError from an attempt in which add_rule raised after a
\* rule, its filter and its owner were deleted and an owner and a filter
\* were added: those changes are on the target.
C21_Witness ==
    /\ pc = "done"
    /\ result = "TargetError"
    /\ ExistingRead
    /\ raised_at > 0
    /\ calls[raised_at] = "add_rule"
    /\ Succeeded("delete_rule") = 1
    /\ Succeeded("add_filter") = 1
    /\ Removed("rules") = {RuleA}
    /\ Put("filters") = {F2}
    /\ Put("rules") = {}


\* C22 as stated: a phase has waited its fixed delay exactly once per attempt
\* after the first, no attempt starts with the elapsed time at or past the
\* phase's time budget, and a phase that ends with every attempt failed by
\* a RecoverableError raises its terminal error.
C22_Original ==
    /\ phase # "none" =>
          /\ n_sleep = attempt_number - 1
          /\ slept = n_sleep * retry.delay
    /\ (pc = "before" /\ attempt_number > 1) => clock < retry.timeout
    /\ (pc = "done" /\ all_recoverable) => result = PhaseError

\* C22 amended: the same, with the elapsed time compared with the budget
\* when an attempt fails, before the delay is waited: the attempt that
\* follows a delay may start at or past the budget.
C22_FixedDelayAndBudget ==
    /\ phase # "none" =>
          /\ n_sleep = attempt_number - 1
          /\ slept = n_sleep * retry.delay
    /\ (pc = "before" /\ attempt_number > 1) =>
          /\ clock >= slept
          /\ clock - retry.delay < retry.timeout
    /\ (pc = "done" /\ all_recoverable) => result = PhaseError

\* A second attempt of the target phase is about to start after one delay,
\* with the elapsed time already at the budget.
C22_Witness ==
    /\ pc = "before"
    /\ phase = "target"
    /\ attempt_number = 2
    /\ n_sleep = 1
    /\ slept = retry.delay
    /\ clock = retry.timeout


\* The entity kind a step works on, and the desired set of that kind as
\* projected from the rules read from the source.
StepField(s) ==
    CASE s \in {"delete_rule", "add_rule"}     -> "rules"
      [] s \in {"delete_filter", "add_filter"} -> "filters"
      [] OTHER                                 -> "owners"
DesiredOf(field) ==
    CASE field = "rules"   -> desired
      [] field = "filters" -> {r.packet_filter : r \in desired}
      [] OTHER             -> UNION {r.owners : r \in desired}

\* C23: the rules diffed against the target are the rules read from the
\* source, the desired filters are the packet filters of those rules and the
\* desired owners the union of their owners; the source is only opened, read
\* with read_all_rules and closed, and no source object is called in the
\* target phase.
C23_DesiredIsSourceProjection ==
    /\ Desired.rules = desired
    /\ Desired.filters = {r.packet_filter : r \in desired}
    /\ Desired.owners = UNION {r.owners : r \in desired}
    /\ phase = "source" =>
          /\ \A i \in 1..Len(calls) : calls[i] \in {"open", "read_all_rules", "close"}
          /\ \A u \in inst_users : u[1][1] = "source"
          /\ n_apply = 0
    /\ phase = "target" => \A u \in inst_users : u[1][1] = "target"
    /\ (phase = "target" /\ pc \in DeleteSteps) =>
          todo \subseteq {e.identifier : e \in existing[StepField(pc)] \ DesiredOf(StepField(pc))}
    /\ (phase = "target" /\ pc \in AddSteps) =>
          todo \subseteq DesiredOf(StepField(pc)) \ existing[StepField(pc)]

\* Both rules were read from the source and the target held nothing: the
\* add loop for filters is about to add both rules' filters.
C23_Witness ==
    /\ phase = "target"
    /\ desired = {RuleA, RuleB}
    /\ pc = "add_filter"
    /\ todo = {F1, F2}
    /\ existing = EmptyState


\* Two raw records agree in everything but, possibly, the order of their
\* sources and the order in which their owners are supplied.
SameButOrder(a, b) ==
    /\ IsPermutation(a.sources, b.sources)
    /\ a.destinations = b.destinations
    /\ Range(a.packet_filter) = Range(b.packet_filter)
    /\ Range(a.owners) = Range(b.owners)

Constructed(m) == m.built /\ m.error = "none"
Rejected(m) == m.built /\ m.error # "none"
BothGiven(a, b) == a # None /\ b # None

\* C25: a constructed network service is in normal form (icmp has no ports;
\* tcp and udp have a low port; a high port is there only above a low port
\* of at least 1), and tcp/udp arguments without a low port, with a high
\* port below the low port, or with a range starting at port 0 are rejected.
C25_ServiceNormalForm ==
    /\ Constructed(rf_made) =>
          /\ rf_made.protocol = "icmp" => rf_made.port_low = None /\ rf_made.port_high = None
          /\ rf_made.protocol \in {"tcp", "udp"} => rf_made.port_low # None
          /\ rf_made.port_high # None =>
                /\ rf_made.port_low # None
                /\ ValueOf(rf_made.port_low) >= 1
                /\ ValueOf(rf_made.port_high) > ValueOf(rf_made.port_low)
    /\ (rf_made.built /\ rf_args.protocol \in {"tcp", "udp"}) =>
          /\ rf_args.port_low = None => Rejected(rf_made)
          /\ (BothGiven(rf_args.port_low, rf_args.port_high)
                /\ ValueOf(rf_args.port_high) < ValueOf(rf_args.port_low)) => Rejected(rf_made)
          /\ (BothGiven(rf_args.port_low, rf_args.port_high)
                /\ ValueOf(rf_args.port_low) = 0
                /\ ValueOf(rf_args.port_high) # 0) => Rejected(rf_made)

\* tcp with the high port equal to the low port: constructed as a single port.
C25_Witness ==
    /\ Constructed(rf_made)
    /\ rf_args.protocol = "tcp"
    /\ rf_args.port_low = Some(2)
    /\ rf_args.port_high = Some(2)
    /\ rf_made.port_low = Some(2)
    /\ rf_made.port_high = None

\* C26: a constructed network peer is in normal form (a high address is
\* there only above a low value that is a single address), and arguments
\* with a network and a high address, or with a high address below the low
\* address, are rejected.
C26_PeerNormalForm ==
    /\ (Constructed(rp_made) /\ rp_made.ip_high # None) =>
              /\ rp_made.ip_low.kind = "address"
              /\ ValueOf(rp_made.ip_high).kind = "address"
              /\ ValueOf(rp_made.ip_high).address > rp_made.ip_low.address
    /\ (rp_made.built /\ rp_args.ip_high # None) =>
          /\ rp_args.ip_low.kind = "network" => Rejected(rp_made)
          /\ (rp_args.ip_low.kind = "address"
                /\ ValueOf(rp_args.ip_high).kind = "address"
                /\ ValueOf(rp_args.ip_high).address < rp_args.ip_low.address) => Rejected(rp_made)

\* A high address equal to the low address: constructed as a single address.
C26_Witness ==
    /\ Constructed(rp_made)
    /\ rp_args.ip_low = Address(2)
    /\ rp_args.ip_high = Some(Address(2))
    /\ rp_made.ip_low = Address(2)
    /\ rp_made.ip_high = None


\* C27: after disconnect() returned normally the executor holds no live
\* connection; __enter__ calls connect and, when that returns, gives the
\* executor itself with a live connection; leaving the with statement calls
\* disconnect, also when the body raised.
C27_ContextConnectsAndDisconnects ==
    /\ (ex_last.op = "disconnect" /\ ex_last.raised = "none") =>
          ~(ex_connection = "conn" /\ ex_alive)
    /\ (ex_last.op = "__enter__" /\ ex_last.raised = "none") =>
          /\ ex_last.value = "self"
          /\ ex_connection = "conn"
          /\ ex_last.alive
    /\ ex_with \in {"in", "not_entered"} => ex_calls = <<"connect">>
    /\ ex_with = "left" => ex_calls = <<"connect", "disconnect">>

\* A with statement whose body's execute() raised has been left, and the
\* disconnect() called on leaving returned.
C27_Witness ==
    /\ ex_with = "left"
    /\ ex_calls = <<"connect", "disconnect">>
    /\ ex_last.op = "disconnect"
    /\ ex_last.live
    /\ ex_last.raised = "none"
    /\ ex_connection = "none"
    /\ Len(ex_sent) = 2


\* The last call was a connect(), direct or by __enter__, that failed.
ConnectFailed == ex_last.op \in {"connect", "__enter__"} /\ ex_last.cause # "none"

\* C28: a connect() that failed raised the executor error matching the
\* failure (timeout, authentication, OS or socket error) and left the
\* executor without a live connection; an execute() that follows raises
\* NoConnectionError.
C28_FailedConnectStaysDisconnected ==
    /\ [](ConnectFailed =>
            /\ ex_last.raised # "none"
            /\ ex_last.cause = "NetmikoTimeoutException" =>
                  ex_last.raised = "ExecutorConnectionTimeoutError"
            /\ ex_last.cause = "NetmikoAuthenticationException" =>
                  ex_last.raised = "ExecutorAuthenticationError"
            /\ ex_last.cause = "OSError" => ex_last.raised = "ExecutorSocketError"
            /\ ~(ex_connection = "conn" /\ ex_alive))
    /\ [][(ConnectFailed /\ Execute) =>
              (ex_last'.raised = "NoConnectionError" /\ ex_sent' = <<>>)]_vars

\* An authentication failure on reconnecting an executor that still holds
\* its dead connection.
C28_Witness ==
    /\ ex_last.op = "connect"
    /\ ex_last.cause = "NetmikoAuthenticationException"
    /\ ex_last.raised = "ExecutorAuthenticationError"
    /\ ex_connection = "conn"
    /\ ~ex_alive


\* The strings of test_generate_name with the digits of the identifiers it
\* expects, and two strings outside ASCII with hashlib's digests of them.
StrEmpty == <<>>
DigestEmpty ==
    <<"d", "a", "3", "9", "a", "3", "e", "e", "5", "e", "6", "b", "4", "b",
      "0", "d", "3", "2", "5", "5", "b", "f", "e", "f", "9", "5", "6", "0",
      "1", "8", "9", "0", "a", "f", "d", "8", "0", "7", "0", "9">>
StrEmptyArray == <<91, 93>>
DigestEmptyArray ==
    <<"9", "7", "d", "1", "7", "0", "e", "1", "5", "5", "0", "e", "e", "e",
      "4", "a", "f", "c", "0", "a", "f", "0", "6", "5", "b", "7", "8", "c",
      "d", "a", "3", "0", "2", "a", "9", "7", "6", "7", "4", "c">>
StrEmptyObject == <<123, 125>>
DigestEmptyObject ==
    <<"b", "f", "2", "1", "a", "9", "e", "8", "f", "b", "c", "5", "a", "3",
      "8", "4", "6", "f", "b", "0", "5", "b", "4", "f", "a", "0", "8", "5",
      "9", "e", "0", "9", "1", "7", "b", "2", "2", "0", "2", "f">>
StrObjectX == <<123, 34, 120, 34, 58, 32, 52, 125>>
DigestObjectX ==
    <<"0", "e", "9", "4", "9", "5", "c", "7", "7", "1", "3", "d", "d", "2",
      "9", "6", "e", "2", "9", "9", "1", "1", "1", "2", "3", "2", "7", "4",
      "e", "2", "a", "4", "e", "6", "a", "b", "6", "4", "7", "0">>
StrNestedG == <<91, 10, 32, 32, 123, 10, 32, 32, 32, 32, 34, 103, 34, 58, 32,
                34, 104, 34, 10, 32, 32, 125, 10, 93>>
DigestNestedG ==
    <<"b", "5", "6", "3", "4", "d", "5", "7", "7", "2", "f", "5", "9", "0",
      "b", "6", "d", "8", "d", "c", "6", "e", "7", "9", "d", "a", "f", "6",
      "2", "1", "0", "d", "c", "3", "9", "7", "c", "a", "4", "6">>
StrEAcute == <<233>>
DigestEAcute ==
    <<"b", "f", "1", "5", "b", "e", "7", "1", "7", "a", "c", "1", "b", "0",
      "8", "0", "b", "4", "f", "1", "c", "4", "5", "6", "6", "9", "2", "8",
      "2", "5", "8", "9", "1", "f", "f", "5", "0", "7", "3", "d">>
StrEuro == <<8364>>
DigestEuro ==
    <<"8", "3", "f", "c", "8", "6", "7", "a", "6", "e", "a", "7", "b", "f",
      "1", "c", "a", "1", "0", "5", "a", "e", "c", "9", "a", "1", "b", "8",
      "1", "2", "3", "4", "e", "0", "a", "e", "c", "4", "0", "e">>
ExpectedDigest(str) ==
    CASE str = StrEmpty -> DigestEmpty
      [] str = StrEmptyArray -> DigestEmptyArray
      [] str = StrEmptyObject -> DigestEmptyObject
      [] str = StrObjectX -> DigestObjectX
      [] str = StrNestedG -> DigestNestedG
      [] str = StrEAcute -> DigestEAcute
      [] str = StrEuro -> DigestEuro
LowercaseHex == {HexDigits[i] : i \in 1..16}

\* C29: the identifier generate_identifier returns is the prefix "X-"
\* followed by the 40 lowercase hex digits of the SHA-1 digest of the
\* string's UTF-8 bytes, whatever was hashed before (the empty string gives
\* X-da39a3ee5e6b4b0d3255bfef95601890afd80709), and every call with the same
\* string has returned the same identifier.
C29_IdentifierIsPrefixedSha1 ==
    /\ nm_pc = "returned" =>
        /\ nm_identifier.prefix = "X-"
        /\ Len(nm_identifier.digest) = 40
        /\ \A i \in 1..Len(nm_identifier.digest) : nm_identifier.digest[i] \in LowercaseHex
        /\ nm_identifier.digest = ExpectedDigest(nm_string)
        /\ nm_string = <<>> => nm_identifier.digest = DigestEmpty
    /\ \A p, q \in nm_issued : p[1] = q[1] => p[2] = q[2]
C29_Witness ==
    /\ nm_pc = "returned"
    /\ nm_string = StrEmpty
    /\ nm_identifier = [prefix |-> "X-", digest |-> DigestEmpty]
    /\ \E p \in nm_issued : p[1] # StrEmpty


SourceCalls == {"open", "read_all_rules", "close"}
OfSource(instance) == instance[1] = "source"

\* C30: when run() ends with SourceError the target phase never began: no
\* object of the target factory was created, no session on one was opened,
\* every collaborator call was made on a source object and was open,
\* read_all_rules or close, apply_changes was never called, the target's own
\* state did not change while the source phase ran, and nothing is done
\* after the error.
C30_SourceErrorLeavesTargetUntouched ==
    /\ [](result = "SourceError" =>
            /\ phase = "source"
            /\ inst = <<"none", 0>> \/ OfSource(inst)
            /\ \A u \in inst_users : OfSource(u[1])
            /\ \A o \in open_sessions \cup close_raised : OfSource(o)
            /\ \A i \in 1..Len(calls) : calls[i] \in SourceCalls
            /\ n_apply = 0)
    /\ [][phase' = "source" => (tgt' = tgt /\ n_apply' = n_apply)]_vars
    /\ [][result # "SourceError"]_vars
C30_Witness ==
    /\ result = "SourceError"
    /\ attempt_number > 1
    /\ Len(calls) > 1
    /\ tgt # EmptyState


\* A collaborator call was issued in this step and returned.
CallReturned == Len(calls') = Len(calls) + 1 /\ raised_at' = 0

\* C31: in every attempt of the target phase the three reads give what the
\* target holds at that moment and the steps are computed from that reading;
\* hence every add call that returns puts an element the target did not
\* hold, and every delete call that returns removes one it held: nothing an
\* earlier attempt added or deleted is added or deleted again.
C31_EachAttemptDiffsFreshReading ==
    /\ [][(phase = "target" /\ pc = "read_all_owners" /\ CallReturned) =>
            (existing' = tgt /\ pc' = NextStep(1, Desired, tgt))]_vars
    /\ [][(pc \in AddSteps /\ CallReturned) =>
            Cardinality(tgt'[StepField(pc)]) = Cardinality(tgt[StepField(pc)]) + 1]_vars
    /\ [][(pc \in DeleteSteps /\ CallReturned) =>
            Cardinality(tgt'[StepField(pc)]) = Cardinality(tgt[StepField(pc)]) - 1]_vars
C31_Witness ==
    /\ phase = "target"
    /\ attempt_number > 1
    /\ pc = "add_rule"
    /\ \E f \in existing.filters \cap Desired.filters : f \notin GetFilters(existing.rules)


\* The retry attributes allow no second attempt.
SingleAttemptTuning == retry.count <= 1 \/ retry.timeout = 0

C33_CreateErrorEndsPhase ==
    /\ outcome.op # "create"
    /\ n_create <= attempt_number
    /\ (pc = "done" /\ cause.op = "create") =>
          /\ cause.at = attempt_number
          /\ n_create = attempt_number
          /\ n_sleep = attempt_number - 1
          /\ Classified(cause) => result = PhaseError
C33_Witness ==
    /\ pc = "done"
    /\ phase = "target"
    /\ cause = Error("Recoverable", "create", 1)
    /\ retry.count = 2
    /\ retry.timeout = 2
    /\ clock = 0
    /\ n_sleep = 0
    /\ result = "TargetError"


\* The attempt is over and its close() call raised.
CloseFailed == pc = "iter" /\ inst \in close_raised

\* C34: when close() raises, its error is the attempt's outcome whatever the
\* attempt's work did, apply_changes included.  A FatalError from close()
\* makes run() raise the phase's terminal error; a RecoverableError is
\* judged by the retry policy, which either ends the phase with its terminal
\* error or waits the delay and starts another attempt, on a newly created
\* collaborator.  apply_changes is called at most once per attempt.
C34_CloseErrorIsAttemptOutcome ==
    /\ [](CloseFailed => (outcome.op = "close" /\ outcome.at = attempt_number))
    /\ [](phase = "target" => n_apply <= attempt_number)
    /\ [][(CloseFailed /\ outcome.kind = "Fatal") =>
            (pc' = "done" /\ result' = PhaseError /\ cause' = outcome)]_vars
    /\ [][(CloseFailed /\ outcome.kind = "Recoverable") =>
            \/ pc' = "done" /\ result' = PhaseError /\ cause' = outcome
            \/ pc' = "before" /\ attempt_number' = attempt_number + 1 /\ n_sleep' = n_sleep + 1]_vars
    /\ [][(pc = "before" /\ pc' = "open") => inst' \notin {u[1] : u \in inst_users} \cup {inst}]_vars
\* run() returned normally after apply_changes was called twice: the first
\* attempt's close() raised a RecoverableError after its apply_changes.
C34_Witness ==
    /\ result = "ok"
    /\ n_apply = 2
    /\ attempt_number = 2
    /\ close_raised = {<<"target", 1>>}


SecondRun == runs_done = 1

DisconnectTimedOut ==
    /\ ex_pc = "idle"
    /\ ex_last.op = "disconnect"
    /\ ex_last.raised = "ExecutorDisconnectTimeoutError"

\* C37: when disconnect() has failed with ExecutorDisconnectTimeoutError the
\* connection handle is still set and is_connected() held when the call
\* ended; a connect() that follows while nothing else happened to the
\* connection finds it connected and opens no new connection.
C37_FailedDisconnectLeavesConnected ==
    /\ [](DisconnectTimedOut => ex_connection = "conn" /\ ex_last.alive)
    /\ [][(DisconnectTimedOut /\ ex_alive = ex_last.alive /\ ex_last'.op = "connect")
            => /\ ex_last'.live
               /\ ex_last'.raised = "none"
               /\ UNCHANGED <<ex_connection, ex_alive>>]_vars

====
